---- MODULE Spec2Model ----
(***************************************************************************)
(* Stream ingestion, detection orchestration and alert pipeline of the     *)
(* camera monitoring backend (backend/app/services).                       *)
(*                                                                         *)
(* Time is counted in whole seconds (datetime.utcnow()); a confidence is   *)
(* an integer number of hundredths (0.80 is 80).  A frame is identified by *)
(* the camera it comes from and its frame_number; its pixels only matter   *)
(* through what the detectors report about it, which is an input of the    *)
(* evaluation.                                                             *)
(***************************************************************************)
EXTENDS Integers, Sequences, FiniteSets, TLC

\* ------------------------------------------------------------------ bounds
\* Number of source ids of the model (camera ids 1..MaxCameras).
MaxCameras == 2
\* Frames one worker run may enqueue in the single-source buffer runs.
MaxFrames == 12
\* Frames one worker run may enqueue in the multi-source runs.
MaxRegFrames == 1
\* Last second of the cooldown clock.
MaxTime == 124
\* Last second of the lying-debounce clock.
MaxLyingTime == 7
\* Threads that may execute the processing loop at the same time.
MaxLoopThreads == 1
\* Last second of the clock in the detector runs.
MaxDetectTime == 2
\* Uploaded videos analysed at the same time.
MaxAnalyses == 2
\* Frames the ring of camera 1 holds in the alert runs.
MaxRingFrames == 1
\* Frames handed to the ring of camera 1 in the clip runs.
MaxClipFrames == 302
\* Websockets that connect in the hub runs.
MaxSubscribers == 3
\* Calls of broadcast in the hub runs.
MaxBroadcasts == 2

\* ------------------------------------------------------- program constants
\* Queue(maxsize=10) in CameraManager.start_camera
QueueMaxSize == 10
\* settings.ALERT_COOLDOWN_SECONDS
ALERT_COOLDOWN_SECONDS == 60
\* settings.LYING_TIME_THRESHOLD
LYING_TIME_THRESHOLD == 5
\* settings.LYING_CONFIDENCE_THRESHOLD (0.80)
LYING_CONFIDENCE_THRESHOLD == 80
\* settings.FALL_CONFIDENCE_THRESHOLD (0.75)
FALL_CONFIDENCE_THRESHOLD == 75
\* settings.PUSHING_CONFIDENCE_THRESHOLD (0.65)
PUSHING_CONFIDENCE_THRESHOLD == 65
\* settings.PROCESS_EVERY_N_FRAMES
PROCESS_EVERY_N_FRAMES == 3
\* VideoClipGenerator.max_buffer_size
max_buffer_size == 300
\* settings.VIDEO_CLIP_DURATION
VIDEO_CLIP_DURATION == 15
\* frames per second generate_clip assumes
CLIP_FPS == 30
\* camera_id=0, the key analyze_video passes for every uploaded video
AnalysisKey == 0
\* settings.CROWD_THRESHOLD, the default crowd_threshold of a camera row
CROWD_THRESHOLD == 10

Cameras == 1..MaxCameras
Subscribers == 1..MaxSubscribers

\* "No frame": what get_frame returns as None.
NoFrame == [camera_id |-> 0, frame_number |-> -1]

VARIABLES
  processes,      \* CameraManager.processes: camera id -> its worker process
  stop_events,    \* CameraManager.stop_events: camera id -> Event (set or not)
  frame_queues,   \* CameraManager.frame_queues: camera id -> Queue contents, oldest first
  camera_info,    \* CameraManager.camera_info: its keys
  stopping,       \* camera ids for which a stop_camera call is waiting in join()
  live_workers,   \* camera id -> number of worker processes of that id still running
  last_call,      \* the CameraManager call of the latest step and what it returned
  evicted,        \* the last frame the worker removed to make room, and the queue it saw
  now,            \* the clock (seconds)
  last_alerts,    \* AlertDeduplicator.last_alerts: (camera id, alert type) -> time
  dedup_log,      \* the should_send_alert calls made so far: key, time, result
  lying_tracker,  \* DetectionService.lying_tracker: camera id -> start of the lying window
  prev_frame,     \* PushingDetector.prev_frame
  report,         \* the last report process_frame returned
  run_start,      \* camera id -> time of the first observation of the current run of
                  \* qualifying lying observations (-1: the last one did not qualify)
  running,        \* VideoProcessor.running
  threads,        \* the threads executing VideoProcessor._processing_loop
  frame_counter,  \* VideoProcessor.frame_counter: camera id -> evaluated frames
  frame_buffers,  \* VideoClipGenerator.frame_buffers: camera id -> recent frames
  alerts,         \* the alerts table of the store, in insertion order
  camera_rows,    \* the cameras table of the store: camera id -> crowd_threshold
  alert_call,     \* the latest create_alert call made on its own: what it saw, did and returned
  clip_call,      \* the latest generate_clip call made on its own and what it wrote
  active_connections, \* ConnectionManager.active_connections, in list order
  broadcasts,     \* the broadcast calls made so far, in call order: where each is
  evaluations,    \* analysis thread -> where it is in the lying steps of process_frame
  pull_call,      \* the latest _process_camera call: what it pulled and did with it
  stop_call,      \* the latest stop_camera call that set a stop event, and the worker as it found it
  app_state,      \* the FastAPI application: "up", or "shutdown" once shutdown_event has run
  detect_call,    \* the latest traced process_frame call: what it did and reported
  delivered,      \* subscriber -> the events sent to it, in the order of the sends
  channels        \* subscriber -> the state of its websocket and the sends
                  \* awaited on it, in the order they were requested

mgrVars == <<processes, stop_events, frame_queues, camera_info, stopping, live_workers,
             last_call, evicted>>
dedupVars == <<last_alerts, dedup_log>>
detVars == <<lying_tracker, prev_frame, report, run_start>>

procVars == <<running, threads, frame_counter, frame_buffers, alerts, camera_rows>>

callVars == <<alert_call, clip_call, detect_call, pull_call, stop_call>>
hubVars == <<active_connections, broadcasts, delivered, channels>>
extVars == <<callVars, hubVars, evaluations, app_state>>

\* everything downstream of the CameraManager
pipeline == <<now, dedupVars, detVars, procVars, extVars>>

vars == <<mgrVars, pipeline>>

\* --------------------------------------------------- multiprocessing.Queue
\* Queue.full()
QueueFull(q) == Len(q) >= QueueMaxSize

\* A queue that hands out its newest item first.
QueueGetNowaitNewest(q) ==
  IF q = <<>>
    THEN [ok |-> FALSE, item |-> NoFrame, queue |-> q]
    ELSE [ok |-> TRUE, item |-> q[Len(q)], queue |-> SubSeq(q, 1, Len(q) - 1)]

\* Queue.get_nowait(): the oldest item, or the Empty exception (ok = FALSE).
QueueGetNowait(q) ==
  IF q = <<>>
    THEN [ok |-> FALSE, item |-> NoFrame, queue |-> q]
    ELSE [ok |-> TRUE, item |-> Head(q), queue |-> Tail(q)]

\* Queue.put_nowait(x): appended at the end, or the Full exception (ok = FALSE).
QueuePutNowait(q, x) ==
  IF Len(q) >= QueueMaxSize
    THEN [ok |-> FALSE, queue |-> q]
    ELSE [ok |-> TRUE, queue |-> Append(q, x)]

\* ------------------------------------------------------------ construction
\* The latest step was no CameraManager call.
NoCall == [op |-> "none", camera_id |-> 0, ok |-> FALSE, frame |-> NoFrame,
           before |-> <<>>]

\* The CameraManager call the latest step made, with what it returned.
Call(op, c, ok, frame, before) ==
  [op |-> op, camera_id |-> c, ok |-> ok, frame |-> frame, before |-> before]

\* dict[k] = v and del dict[k]
Put(f, k, v) == [x \in DOMAIN f \cup {k} |-> IF x = k THEN v ELSE f[x]]
Del(f, k) == [x \in DOMAIN f \ {k} |-> f[x]]

\* CameraManager.__init__, lines 106-110
InitManager ==
  /\ processes = <<>>
  /\ stop_events = <<>>
  /\ frame_queues = <<>>
  /\ camera_info = {}
  /\ stopping = {}
  /\ live_workers = [c \in Cameras |-> 0]
  /\ last_call = NoCall
  /\ evicted = [frame |-> NoFrame, before |-> <<>>]

\* AlertDeduplicator.__init__, lines 24-25
InitDeduplicator ==
  /\ last_alerts = <<>>
  /\ dedup_log = <<>>

NoReport == [evaluated |-> FALSE]

LoopThreads == 1..MaxLoopThreads

\* No thread: the slot of a thread that was never started.
NoThread == [pc |-> "none", pending |-> {}, pulled |-> {}, visited |-> {},
             fault |-> {}]

\* VideoProcessor.__init__, VideoClipGenerator.__init__, and a store that has
\* a row for every camera and no alert.
\* No create_alert and no generate_clip call made on its own yet.
NoAlertCall == [op |-> "none"]
NoClipCall == [op |-> "none"]
NoDetectCall == [op |-> "none"]
NoPullCall == [op |-> "none"]
NoStopCall == [op |-> "none"]

\* The threads of the background tasks that analyse uploaded videos.
AnalysisThreads == 1..MaxAnalyses

\* An analysis thread that is not inside the lying steps of process_frame.
NoEvaluation == [pc |-> "idle", window |-> -1, raised |-> FALSE]

\* ConnectionManager.__init__ (websocket.py lines 15-16): no subscriber; no
\* broadcast called yet, nothing sent.
InitHub ==
  /\ active_connections = <<>>
  /\ broadcasts = <<>>
  /\ delivered = [s \in Subscribers |-> <<>>]
  /\ channels = [s \in Subscribers |-> [state |-> "new", sending |-> <<>>]]

InitProcessorThreads(slots) ==
  /\ alert_call = NoAlertCall
  /\ clip_call = NoClipCall
  /\ detect_call = NoDetectCall
  /\ pull_call = NoPullCall
  /\ stop_call = NoStopCall
  /\ app_state = "up"
  /\ evaluations = [th \in AnalysisThreads |-> NoEvaluation]
  /\ InitHub
  /\ running = FALSE
  /\ threads = [th \in slots |-> NoThread]
  /\ frame_counter = <<>>
  /\ frame_buffers = <<>>
  /\ alerts = <<>>
  /\ camera_rows = [c \in Cameras |-> CROWD_THRESHOLD]

InitProcessor == InitProcessorThreads(LoopThreads)

\* DetectionService.__init__ and PushingDetector.__init__
InitDetection ==
  /\ lying_tracker = <<>>
  /\ prev_frame = NoFrame
  /\ report = NoReport
  /\ run_start = [c \in Cameras |-> -1]

\* ---------------------------------------------- CameraStreamProcess (worker)
\* A worker process: where it is in run(), its capture handle, its frame
\* counter and the frame it has just read.
NewProcess == [pc |-> "open", cap |-> "none", frame_count |-> 0, frame |-> NoFrame]

IsAlive(p) == p.pc # "done"

\* The worker of camera c moves on; a worker that ends is no longer running.
SetProc(c, p) ==
  /\ processes' = [processes EXCEPT ![c] = p]
  /\ live_workers' = IF p.pc = "done"
                        THEN [live_workers EXCEPT ![c] = @ - 1]
                        ELSE live_workers
  /\ last_call' = NoCall

\* run(), lines 28-32: open the stream; a stream that does not open ends run()
\* (the finally clause releases the handle).
WorkerOpen(c) ==
  /\ c \in DOMAIN processes
  /\ processes[c].pc = "open"
  /\ \E opened \in BOOLEAN :
       SetProc(c, IF opened
                    THEN [processes[c] EXCEPT !.pc = "loop", !.cap = "opened"]
                    ELSE [processes[c] EXCEPT !.pc = "done", !.cap = "released"])
  /\ UNCHANGED <<stop_events, frame_queues, camera_info, stopping, evicted, pipeline>>

\* A worker that never looks at its stop event.
WorkerLoopIgnoresStop(c) ==
  /\ c \in DOMAIN processes
  /\ processes[c].pc = "loop"
  /\ SetProc(c, [processes[c] EXCEPT !.pc = "read"])
  /\ UNCHANGED <<stop_events, frame_queues, camera_info, stopping, evicted, pipeline>>

\* run(), line 40: while not stop_event.is_set(); leaving the loop runs the
\* finally clause, which releases the handle.
WorkerLoop(c) ==
  /\ c \in DOMAIN processes
  /\ processes[c].pc = "loop"
  /\ SetProc(c, IF stop_events[c]
                  THEN [processes[c] EXCEPT !.pc = "done", !.cap = "released"]
                  ELSE [processes[c] EXCEPT !.pc = "read"])
  /\ UNCHANGED <<stop_events, frame_queues, camera_info, stopping, evicted, pipeline>>

\* run(), lines 41-46: cap.read(); a handle that is not open never returns a frame.
WorkerRead(c, maxf) ==
  /\ c \in DOMAIN processes
  /\ processes[c].pc = "read"
  /\ \E ret \in BOOLEAN :
       /\ ret => (processes[c].cap = "opened" /\ processes[c].frame_count < maxf)
       /\ SetProc(c, IF ret
                       THEN [processes[c] EXCEPT
                               !.pc = "full",
                               !.frame = [camera_id |-> c,
                                          frame_number |-> processes[c].frame_count]]
                       ELSE [processes[c] EXCEPT !.pc = "reconnect"])
  /\ UNCHANGED <<stop_events, frame_queues, camera_info, stopping, evicted, pipeline>>

\* reconnect(), lines 90-91: release the handle.
WorkerRelease(c) ==
  /\ c \in DOMAIN processes
  /\ processes[c].pc = "reconnect"
  /\ SetProc(c, [processes[c] EXCEPT !.pc = "backoff", !.cap = "released"])
  /\ UNCHANGED <<stop_events, frame_queues, camera_info, stopping, evicted, pipeline>>

\* reconnect(), lines 94-100: after the fixed wait, open the stream again.
WorkerReopen(c) ==
  /\ c \in DOMAIN processes
  /\ processes[c].pc = "backoff"
  /\ \E opened \in BOOLEAN :
       SetProc(c, [processes[c] EXCEPT !.pc = "loop",
                                       !.cap = IF opened THEN "opened" ELSE "failed"])
  /\ UNCHANGED <<stop_events, frame_queues, camera_info, stopping, evicted, pipeline>>

\* A worker that never makes room: it goes straight to put_nowait.
WorkerFullNeverEvicts(c) ==
  /\ c \in DOMAIN processes
  /\ processes[c].pc = "full"
  /\ SetProc(c, [processes[c] EXCEPT !.pc = "put"])
  /\ UNCHANGED <<stop_events, frame_queues, camera_info, stopping, evicted, pipeline>>

\* run(), line 59: if self.frame_queue.full()
WorkerFull(c) ==
  /\ c \in DOMAIN processes
  /\ processes[c].pc = "full"
  /\ SetProc(c, [processes[c] EXCEPT
                   !.pc = IF QueueFull(frame_queues[c]) THEN "evict" ELSE "put"])
  /\ UNCHANGED <<stop_events, frame_queues, camera_info, stopping, evicted, pipeline>>

\* run(), lines 61-64: get_nowait() to make room; Empty is swallowed.
WorkerEvict(c) ==
  /\ c \in DOMAIN processes
  /\ processes[c].pc = "evict"
  /\ LET r == QueueGetNowait(frame_queues[c]) IN
       /\ frame_queues' = [frame_queues EXCEPT ![c] = r.queue]
       /\ evicted' = IF r.ok
                       THEN [frame |-> r.item, before |-> frame_queues[c]]
                       ELSE evicted
  /\ SetProc(c, [processes[c] EXCEPT !.pc = "put"])
  /\ UNCHANGED <<stop_events, camera_info, stopping, pipeline>>

\* run(), lines 66-78: put_nowait(frame_data) and frame_count += 1; Full is
\* caught at line 74 and the frame is lost; then the short sleep.
WorkerPut(c) ==
  /\ c \in DOMAIN processes
  /\ processes[c].pc = "put"
  /\ LET r == QueuePutNowait(frame_queues[c], processes[c].frame) IN
       /\ frame_queues' = [frame_queues EXCEPT ![c] = r.queue]
       /\ SetProc(c, [processes[c] EXCEPT
                        !.pc = "loop",
                        !.frame = NoFrame,
                        !.frame_count = IF r.ok THEN @ + 1 ELSE @])
  /\ UNCHANGED <<stop_events, camera_info, stopping, evicted, pipeline>>

Worker(c, maxf) ==
  \/ WorkerOpen(c)
  \/ WorkerLoop(c)
  \/ WorkerRead(c, maxf)
  \/ WorkerRelease(c)
  \/ WorkerReopen(c)
  \/ WorkerFull(c)
  \/ WorkerEvict(c)
  \/ WorkerPut(c)

\* The worker of camera c against a source of MaxRegFrames frames.  Such a
\* source is shorter than the queue, which therefore never fills: the test of
\* line 59 is always false and the eviction of lines 61-64 is never reached.
WorkerShortSource(c) ==
  \/ WorkerOpen(c)
  \/ WorkerLoop(c)
  \/ WorkerRead(c, MaxRegFrames)
  \/ WorkerRelease(c)
  \/ WorkerReopen(c)
  \/ WorkerFull(c)
  \/ WorkerPut(c)

\* ------------------------------------------------------------ CameraManager
\* get_frame(camera_id), lines 183-193.
GetFrame(c) ==
  IF c \notin DOMAIN frame_queues
    THEN [frame |-> NoFrame, queues |-> frame_queues]
    ELSE LET r == QueueGetNowait(frame_queues[c]) IN
           [frame |-> r.item, queues |-> [frame_queues EXCEPT ![c] = r.queue]]

\* A get_frame call on its own.
GetFrameCall(c) ==
  /\ frame_queues' = GetFrame(c).queues
  /\ last_call' = Call("get_frame", c, GetFrame(c).frame # NoFrame, GetFrame(c).frame,
                        IF c \in DOMAIN frame_queues THEN frame_queues[c] ELSE <<>>)
  /\ UNCHANGED <<processes, stop_events, camera_info, stopping, live_workers,
                 evicted, pipeline>>

\* The start_camera call that finds the camera registered, lines 114-116.
StartCameraRunning(c) ==
  /\ c \in DOMAIN processes
  /\ last_call' = Call("start_camera", c, FALSE, NoFrame, <<>>)
  /\ UNCHANGED <<processes, stop_events, frame_queues, camera_info, stopping,
                 live_workers, evicted, pipeline>>

\* start_camera, lines 118-150, for a camera that is not registered: a queue, an
\* event and a process are created and stored, unless starting the process raises.
StartCameraNew(c) ==
  /\ c \notin DOMAIN processes
  /\ \E started \in BOOLEAN :
       IF started
         THEN /\ processes' = Put(processes, c, NewProcess)
              /\ stop_events' = Put(stop_events, c, FALSE)
              /\ frame_queues' = Put(frame_queues, c, <<>>)
              /\ camera_info' = camera_info \cup {c}
              /\ live_workers' = [live_workers EXCEPT ![c] = @ + 1]
              /\ last_call' = Call("start_camera", c, TRUE, NoFrame, <<>>)
         ELSE /\ last_call' = Call("start_camera", c, FALSE, NoFrame, <<>>)
              /\ UNCHANGED <<processes, stop_events, frame_queues, camera_info,
                             live_workers>>
  /\ UNCHANGED <<stopping, evicted, pipeline>>

\* A start_camera without the check of line 114: it registers a new worker
\* over the one that is there.
StartCameraOverwrite(c) ==
  /\ processes' = Put(processes, c, NewProcess)
  /\ stop_events' = Put(stop_events, c, FALSE)
  /\ frame_queues' = Put(frame_queues, c, <<>>)
  /\ camera_info' = camera_info \cup {c}
  /\ live_workers' = [live_workers EXCEPT ![c] = @ + 1]
  /\ last_call' = Call("start_camera", c, TRUE, NoFrame, <<>>)
  /\ UNCHANGED <<stopping, evicted, pipeline>>

\* start_camera(camera_id, rtsp_url), lines 112-150.
StartCamera(c) ==
  \/ StartCameraRunning(c)
  \/ StartCameraNew(c)

\* A stop_camera that answers True for a camera it does not know.
StopCameraAbsentTrue(c) ==
  /\ c \notin DOMAIN processes
  /\ last_call' = Call("stop_camera", c, TRUE, NoFrame, <<>>)
  /\ UNCHANGED <<processes, stop_events, frame_queues, camera_info, stopping,
                 live_workers, evicted, pipeline>>

\* The stop_camera call that finds no such camera, lines 154-156.
StopCameraAbsent(c) ==
  /\ c \notin DOMAIN processes
  /\ last_call' = Call("stop_camera", c, FALSE, NoFrame, <<>>)
  /\ UNCHANGED <<processes, stop_events, frame_queues, camera_info, stopping,
                 live_workers, evicted, pipeline>>

\* A stop_camera that waits for the worker without setting its stop event.
StopCameraSignalNoEvent(c) ==
  /\ c \in DOMAIN processes
  /\ c \notin stopping
  /\ stopping' = stopping \cup {c}
  /\ last_call' = NoCall
  /\ UNCHANGED <<processes, stop_events, frame_queues, camera_info, live_workers,
                 evicted, pipeline>>

\* stop_camera, lines 158-163: set the stop event and wait in join(timeout=5).
StopCameraSignal(c) ==
  /\ c \in DOMAIN processes
  /\ c \notin stopping
  /\ stop_events' = [stop_events EXCEPT ![c] = TRUE]
  /\ stopping' = stopping \cup {c}
  /\ last_call' = NoCall
  /\ UNCHANGED <<processes, frame_queues, camera_info, live_workers,
                 evicted, pipeline>>

\* stop_camera, lines 165-177: the join has returned (the worker ended, or the
\* timeout passed); a worker still alive is terminated; the four entries go.
StopCameraFinish(c) ==
  /\ c \in stopping
  /\ live_workers' = IF IsAlive(processes[c])
                        THEN [live_workers EXCEPT ![c] = @ - 1]
                        ELSE live_workers
  /\ processes' = Del(processes, c)
  /\ stop_events' = Del(stop_events, c)
  /\ frame_queues' = Del(frame_queues, c)
  /\ camera_info' = camera_info \ {c}
  /\ stopping' = stopping \ {c}
  /\ last_call' = Call("stop_camera", c, TRUE, NoFrame, <<>>)
  /\ UNCHANGED <<evicted, pipeline>>

\* stop_camera, lines 158-163, leaving in stop_call the worker as it was when
\* the stop event was set.
StopCameraSignalTraced(c) ==
  /\ c \in DOMAIN processes
  /\ c \notin stopping
  /\ stop_events' = [stop_events EXCEPT ![c] = TRUE]
  /\ stopping' = stopping \cup {c}
  /\ last_call' = NoCall
  /\ stop_call' = [op |-> "stop_camera", camera_id |-> c, worker |-> processes[c],
                   queue |-> frame_queues[c]]
  /\ UNCHANGED <<processes, frame_queues, camera_info, live_workers, evicted, now,
                 dedupVars, detVars, procVars, alert_call, clip_call, detect_call,
                 pull_call, app_state, hubVars, evaluations>>

\* is_camera_running(camera_id), lines 195-199.
IsCameraRunning(c) == c \in DOMAIN processes /\ IsAlive(processes[c])

\* get_running_cameras(), lines 201-203: the keys of processes.
GetRunningCameras == DOMAIN processes

\* stop_camera(camera_id), lines 152-181.
StopCamera(c) ==
  \/ StopCameraAbsent(c)
  \/ StopCameraSignal(c)
  \/ StopCameraFinish(c)

\* ------------------------------------------------- single-source buffer runs
\* Source 1 has been started; its worker and get_frame calls interleave freely.
InitQueue ==
  /\ processes = [c \in {1} |-> NewProcess]
  /\ stop_events = [c \in {1} |-> FALSE]
  /\ frame_queues = [c \in {1} |-> <<>>]
  /\ camera_info = {1}
  /\ stopping = {}
  /\ live_workers = [c \in Cameras |-> IF c = 1 THEN 1 ELSE 0]
  /\ last_call = NoCall
  /\ evicted = [frame |-> NoFrame, before |-> <<>>]
  /\ now = 0
  /\ InitDeduplicator
  /\ InitDetection
  /\ InitProcessor

NextQueue ==
  \/ Worker(1, MaxFrames)
  \/ \E c \in Cameras : GetFrameCall(c)

SpecQueue == InitQueue /\ [][NextQueue]_vars

\* -------------------------------------------------------- AlertDeduplicator
AlertTypes == {"fall", "lying", "pushing", "crowd"}

\* A gate that compares with > where the code compares with >=.
ShouldSendAlertStrict(la, key, t) ==
  IF key \notin DOMAIN la
    THEN [ok |-> TRUE, last_alerts |-> [k \in DOMAIN la \cup {key} |->
                                          IF k = key THEN t ELSE la[k]]]
    ELSE IF t - la[key] > ALERT_COOLDOWN_SECONDS
           THEN [ok |-> TRUE, last_alerts |-> [la EXCEPT ![key] = t]]
           ELSE [ok |-> FALSE, last_alerts |-> la]

\* A gate with one cooldown per camera: an alert of any type that the camera
\* had accepted less than the cooldown ago suppresses the call.
ShouldSendAlertPerCamera(la, key, t) ==
  IF \E k \in DOMAIN la : k[1] = key[1] /\ t - la[k] < ALERT_COOLDOWN_SECONDS
    THEN [ok |-> FALSE, last_alerts |-> la]
    ELSE [ok |-> TRUE, last_alerts |-> [k \in DOMAIN la \cup {key} |->
                                          IF k = key THEN t ELSE la[k]]]

\* should_send_alert(camera_id, alert_type) called at time t, lines 27-41:
\* what it returns and the map it leaves.
ShouldSendAlert(la, key, t) ==
  IF key \notin DOMAIN la
    THEN [ok |-> TRUE, last_alerts |-> [k \in DOMAIN la \cup {key} |->
                                          IF k = key THEN t ELSE la[k]]]
    ELSE IF t - la[key] >= ALERT_COOLDOWN_SECONDS
           THEN [ok |-> TRUE, last_alerts |-> [la EXCEPT ![key] = t]]
           ELSE [ok |-> FALSE, last_alerts |-> la]

\* A purge whose cutoff is half the cooldown instead of twice the cooldown.
CleanupOldEntriesEarly(la, t) ==
  LET cutoff_time == t - ALERT_COOLDOWN_SECONDS \div 2
      keys_to_remove == {k \in DOMAIN la : la[k] < cutoff_time}
  IN [k \in DOMAIN la \ keys_to_remove |-> la[k]]

\* cleanup_old_entries() called at time t, lines 43-51.
CleanupOldEntries(la, t) ==
  LET cutoff_time == t - ALERT_COOLDOWN_SECONDS * 2
      keys_to_remove == {k \in DOMAIN la : la[k] < cutoff_time}
  IN [k \in DOMAIN la \ keys_to_remove |-> la[k]]

\* ------------------------------------------------------------ cooldown runs
\* Keys the cooldown runs call the gate with, how far the clock moves between
\* calls, and how many calls one run makes.
DedupKeys == {<<1, "fall">>, <<1, "lying">>, <<2, "fall">>}
DedupSteps == {30, 31}
MaxCalls == 4

ShouldSendAlertCall(key) ==
  /\ Len(dedup_log) < MaxCalls
  /\ last_alerts' = ShouldSendAlert(last_alerts, key, now).last_alerts
  /\ dedup_log' = Append(dedup_log,
                         [key |-> key, time |-> now,
                          ok |-> ShouldSendAlert(last_alerts, key, now).ok,
                          before |-> last_alerts,
                          after |-> ShouldSendAlert(last_alerts, key, now).last_alerts])
  /\ UNCHANGED <<mgrVars, extVars, now, detVars, procVars>>

CleanupCall ==
  /\ last_alerts' = CleanupOldEntries(last_alerts, now)
  /\ UNCHANGED <<mgrVars, extVars, now, dedup_log, detVars, procVars>>

TickDedup ==
  /\ \E d \in DedupSteps : now + d <= MaxTime /\ now' = now + d
  /\ UNCHANGED <<mgrVars, extVars, dedupVars, detVars, procVars>>

InitDedup ==
  /\ InitManager
  /\ now = 0
  /\ InitDeduplicator
  /\ InitDetection
  /\ InitProcessor

NextDedup ==
  \/ \E key \in DedupKeys : ShouldSendAlertCall(key)
  \/ CleanupCall
  \/ TickDedup

SpecDedup == InitDedup /\ [][NextDedup]_vars

\* --------------------------------------------------------- DetectionService
\* What the detectors compute for one frame: detect_fall and detect_lying
\* return (is, confidence), detect_persons a count and a mean confidence,
\* the optical flow of detect_pushing (is, confidence); crowd_raises: the
\* density computation of detect_crowd raises.  A detector whose model call
\* fails returns (FALSE, 0) from its own except clause.
Obs(fi, fc, li, lc, n, cc, cr, pi, pcf) ==
  [fall_is |-> fi, fall_conf |-> fc, lying_is |-> li, lying_conf |-> lc,
   person_count |-> n, crowd_conf |-> cc, crowd_raises |-> cr,
   push_is |-> pi, push_conf |-> pcf, lying_raises |-> FALSE]

\* lying_tracker[camera_id], or -1 when the camera has no window.
Window(tracker, camera_id) ==
  IF camera_id \in DOMAIN tracker THEN tracker[camera_id] ELSE -1

\* The same frame when the pose model raises inside detect_lying.
LyingRaises(obs) == [obs EXCEPT !.lying_raises = TRUE]

\* PoseDetector.detect_lying, lines 82-130: (is_lying, confidence); its except
\* clause turns an error of the pose model into (False, 0.0).
DetectLying(obs) ==
  IF obs.lying_raises THEN [is |-> FALSE, conf |-> 0]
  ELSE [is |-> obs.lying_is, conf |-> obs.lying_conf]

Qualifies(obs) ==
  DetectLying(obs).is /\ DetectLying(obs).conf >= LYING_CONFIDENCE_THRESHOLD

\* A debounce that keeps the window when an observation does not qualify.
LyingStepNoReset(tracker, camera_id, obs, t) ==
  IF Qualifies(obs)
    THEN LET started == IF camera_id \in DOMAIN tracker
                          THEN tracker
                          ELSE [k \in DOMAIN tracker \cup {camera_id} |->
                                  IF k = camera_id THEN t ELSE tracker[k]]
             time_lying == t - started[camera_id]
         IN [tracker |-> started,
             lying |-> [detected |-> time_lying >= LYING_TIME_THRESHOLD,
                        confidence |-> DetectLying(obs).conf, time_lying |-> time_lying]]
    ELSE [tracker |-> tracker,
          lying |-> [detected |-> FALSE, confidence |-> DetectLying(obs).conf,
                     time_lying |-> -1]]

\* A debounce that forgets every window when an observation does not qualify.
LyingStepResetAll(tracker, camera_id, obs, t) ==
  IF Qualifies(obs)
    THEN LyingStepNoReset(tracker, camera_id, obs, t)
    ELSE [tracker |-> <<>>,
          lying |-> [detected |-> FALSE, confidence |-> DetectLying(obs).conf,
                     time_lying |-> -1]]

\* process_frame, lines 311-333: the lying report and the tracker it leaves.
LyingStep(tracker, camera_id, obs, t) ==
  IF Qualifies(obs)
    THEN LET started == IF camera_id \in DOMAIN tracker
                          THEN tracker
                          ELSE [k \in DOMAIN tracker \cup {camera_id} |->
                                  IF k = camera_id THEN t ELSE tracker[k]]
             time_lying == t - started[camera_id]
         IN [tracker |-> started,
             lying |-> [detected |-> time_lying >= LYING_TIME_THRESHOLD,
                        confidence |-> DetectLying(obs).conf, time_lying |-> time_lying]]
    ELSE [tracker |-> [k \in DOMAIN tracker \ {camera_id} |-> tracker[k]],
          lying |-> [detected |-> FALSE, confidence |-> DetectLying(obs).conf,
                     time_lying |-> -1]]

\* PushingDetector.detect_pushing, lines 228-269: the first frame it sees has
\* no predecessor.
DetectPushing(prev, frame, obs) ==
  IF prev # NoFrame
    THEN [is |-> obs.push_is, conf |-> obs.push_conf, prev_frame |-> frame]
    ELSE [is |-> FALSE, conf |-> 0, prev_frame |-> frame]

\* process_frame(camera_id, frame, crowd_threshold) at time t, lines 289-357:
\* the report, and the state of the service after it.  trace keeps what the
\* call did: the frame, the window it found for its camera, which detectors
\* raised, whether detect_pushing was reached and the frame it compared with.
ProcessFrame(tracker, prev, camera_id, frame, crowd_threshold, obs, t) ==
  LET ls == LyingStep(tracker, camera_id, obs, t)
      push == DetectPushing(prev, frame, obs)
  IN [lying_tracker |-> ls.tracker,
      prev_frame |-> IF obs.crowd_raises THEN prev ELSE push.prev_frame,
      detections |->
        [evaluated |-> TRUE,
         camera_id |-> camera_id,
         time |-> t,
         qualifies |-> Qualifies(obs),
         fall |-> [detected |-> obs.fall_is /\ obs.fall_conf >= FALL_CONFIDENCE_THRESHOLD,
                   confidence |-> obs.fall_conf],
         lying |-> ls.lying,
         crowd |-> IF obs.crowd_raises
                     THEN [detected |-> FALSE, person_count |-> 0, confidence |-> 0]
                     ELSE [detected |-> obs.person_count >= crowd_threshold,
                           person_count |-> obs.person_count,
                           confidence |-> obs.crowd_conf],
         pushing |-> IF obs.crowd_raises
                       THEN [detected |-> FALSE, confidence |-> 0]
                       ELSE [detected |-> push.is /\ push.conf >= PUSHING_CONFIDENCE_THRESHOLD,
                             confidence |-> push.conf]],
      trace |->
        [frame |-> frame,
         window_before |-> Window(tracker, camera_id),
         lying_raises |-> obs.lying_raises,
         crowd_raises |-> obs.crowd_raises,
         pushing_ran |-> ~obs.crowd_raises,
         against |-> IF obs.crowd_raises THEN NoFrame ELSE prev]]

\* The start of the current run of qualifying observations, kept beside the
\* service: the time of the first qualifying observation since the last one
\* that did not qualify.
RunStart(rs, obs, t) == IF Qualifies(obs) THEN (IF rs = -1 THEN t ELSE rs) ELSE -1

\* ------------------------------------------------------------- lying runs
\* Observations the lying runs evaluate: nothing seen, lying just below and at
\* the confidence threshold, lying with full confidence, and a frame on which
\* the crowd computation raises.
LyingObs ==
  { Obs(FALSE, 0, FALSE, 0, 0, 0, FALSE, FALSE, 0),
    Obs(FALSE, 0, TRUE, 79, 1, 90, FALSE, FALSE, 0),
    Obs(FALSE, 0, TRUE, 80, 1, 90, FALSE, FALSE, 0),
    Obs(FALSE, 0, TRUE, 100, 1, 90, TRUE, FALSE, 0) }

ProcessFrameCall(c, obs) ==
  /\ LET r == ProcessFrame(lying_tracker, prev_frame, c,
                           [camera_id |-> c, frame_number |-> 0],
                           CROWD_THRESHOLD, obs, now) IN
       /\ lying_tracker' = r.lying_tracker
       /\ prev_frame' = r.prev_frame
       /\ report' = r.detections
  /\ run_start' = [run_start EXCEPT ![c] = RunStart(@, obs, now)]
  /\ UNCHANGED <<mgrVars, extVars, now, dedupVars, procVars>>

TickLying ==
  /\ now < MaxLyingTime
  /\ now' = now + 1
  /\ UNCHANGED <<mgrVars, extVars, dedupVars, detVars, procVars>>

InitLying ==
  /\ InitManager
  /\ now = 0
  /\ InitDeduplicator
  /\ InitDetection
  /\ InitProcessor

NextLying ==
  \/ \E c \in Cameras, obs \in LyingObs : ProcessFrameCall(c, obs)
  \/ TickLying

SpecLying == InitLying /\ [][NextLying]_vars

\* -------------------------------------------------------- detector runs
\* Observations the detector runs evaluate: nothing seen; a person lying;
\* strong motion; a person lying and strong motion on a frame on which the
\* crowd computation raises; a person lying on a frame on which the pose
\* model raises.
DetectObs ==
  { Obs(FALSE, 0, FALSE, 0, 0, 0, FALSE, FALSE, 0),
    Obs(FALSE, 0, TRUE, 100, 1, 90, FALSE, FALSE, 0),
    Obs(FALSE, 0, FALSE, 0, 1, 90, FALSE, TRUE, 90),
    Obs(FALSE, 0, TRUE, 100, 1, 90, TRUE, TRUE, 90),
    LyingRaises(Obs(FALSE, 0, TRUE, 100, 1, 90, FALSE, FALSE, 0)) }

TickDetect ==
  /\ now < MaxDetectTime
  /\ now' = now + 1
  /\ UNCHANGED <<mgrVars, extVars, dedupVars, detVars, procVars>>

\* process_frame(camera_id, frame, crowd_threshold) on the next frame of
\* camera c, with the trace of the call.
ProcessFrameTraced(c, obs) ==
  /\ LET r == ProcessFrame(lying_tracker, prev_frame, c,
                           [camera_id |-> c, frame_number |-> 0],
                           CROWD_THRESHOLD, obs, now) IN
       /\ lying_tracker' = r.lying_tracker
       /\ prev_frame' = r.prev_frame
       /\ report' = r.detections
       /\ detect_call' = [op |-> "process_frame", report |-> r.detections,
                          trace |-> r.trace]
  /\ run_start' = [run_start EXCEPT ![c] = RunStart(@, obs, now)]
  /\ UNCHANGED <<mgrVars, alert_call, clip_call, pull_call, stop_call, app_state, hubVars, evaluations, now,
                 dedupVars, procVars>>

NextDetect ==
  \/ \E c \in Cameras, obs \in DetectObs : ProcessFrameTraced(c, obs)
  \/ TickDetect

SpecDetect == InitLying /\ [][NextDetect]_vars

\* -------------------------------------------------------- analysis runs
\* Each upload starts analyze_video as a background task in a thread of its
\* own; all of them call process_frame of the one DetectionService with
\* camera_id = AnalysisKey.  The lying steps of process_frame, lines 311-333,
\* are taken one statement at a time, and the threads interleave between them.
SetEvaluation(th, e) == evaluations' = [evaluations EXCEPT ![th] = e]

RaceUnchanged ==
  UNCHANGED <<mgrVars, callVars, hubVars, app_state, now, dedupVars, prev_frame, report,
              run_start, procVars>>

\* Lines 312-314: detect_lying has returned; the branch is chosen.
LyingBranch(th, obs) ==
  /\ evaluations[th].pc = "idle"
  /\ SetEvaluation(th, [pc |-> IF Qualifies(obs) THEN "not_in" ELSE "in",
                        window |-> Window(lying_tracker, AnalysisKey),
                        raised |-> FALSE])
  /\ UNCHANGED lying_tracker
  /\ RaceUnchanged

\* Line 315: if camera_id not in self.lying_tracker
LyingNotIn(th) ==
  /\ evaluations[th].pc = "not_in"
  /\ SetEvaluation(th, [evaluations[th] EXCEPT
                          !.pc = IF AnalysisKey \notin DOMAIN lying_tracker
                                   THEN "set" ELSE "read",
                          !.window = Window(lying_tracker, AnalysisKey)])
  /\ UNCHANGED lying_tracker
  /\ RaceUnchanged

\* Line 316: self.lying_tracker[camera_id] = datetime.utcnow()
LyingSet(th) ==
  /\ evaluations[th].pc = "set"
  /\ lying_tracker' = Put(lying_tracker, AnalysisKey, now)
  /\ SetEvaluation(th, [evaluations[th] EXCEPT !.pc = "read", !.window = now])
  /\ RaceUnchanged

\* Line 318: self.lying_tracker[camera_id] is read; a missing key raises
\* KeyError, which the handler of lines 354-355 catches.
LyingRead(th) ==
  /\ evaluations[th].pc = "read"
  /\ SetEvaluation(th, [evaluations[th] EXCEPT
                          !.pc = "idle",
                          !.window = Window(lying_tracker, AnalysisKey),
                          !.raised = AnalysisKey \notin DOMAIN lying_tracker])
  /\ UNCHANGED lying_tracker
  /\ RaceUnchanged

\* Line 327: if camera_id in self.lying_tracker
LyingIn(th) ==
  /\ evaluations[th].pc = "in"
  /\ SetEvaluation(th, [evaluations[th] EXCEPT
                          !.pc = IF AnalysisKey \in DOMAIN lying_tracker
                                   THEN "del" ELSE "idle",
                          !.window = Window(lying_tracker, AnalysisKey)])
  /\ UNCHANGED lying_tracker
  /\ RaceUnchanged

\* Line 328: del self.lying_tracker[camera_id]; a missing key raises KeyError.
LyingDel(th) ==
  /\ evaluations[th].pc = "del"
  /\ lying_tracker' = Del(lying_tracker, AnalysisKey)
  /\ SetEvaluation(th, [evaluations[th] EXCEPT
                          !.pc = "idle", !.window = -1,
                          !.raised = AnalysisKey \notin DOMAIN lying_tracker])
  /\ RaceUnchanged

TickAnalysis ==
  /\ now < MaxDetectTime
  /\ now' = now + 1
  /\ UNCHANGED <<mgrVars, extVars, dedupVars, detVars, procVars>>

NextAnalysis ==
  \/ \E th \in AnalysisThreads, obs \in DetectObs : LyingBranch(th, obs)
  \/ \E th \in AnalysisThreads : LyingNotIn(th)
  \/ \E th \in AnalysisThreads : LyingSet(th)
  \/ \E th \in AnalysisThreads : LyingRead(th)
  \/ \E th \in AnalysisThreads : LyingIn(th)
  \/ \E th \in AnalysisThreads : LyingDel(th)
  \/ TickAnalysis

SpecAnalysis == InitLying /\ [][NextAnalysis]_vars

\* ------------------------------------------------------ VideoClipGenerator
\* An add_frame that never drops a frame.
AddFrameUnbounded(buffers, c, frame) ==
  Put(buffers, c, IF c \in DOMAIN buffers THEN Append(buffers[c], frame) ELSE <<frame>>)

\* add_frame(camera_id, frame, timestamp), lines 61-73.
AddFrame(buffers, c, frame) ==
  LET appended == IF c \in DOMAIN buffers THEN Append(buffers[c], frame) ELSE <<frame>>
  IN Put(buffers, c, IF Len(appended) > max_buffer_size THEN Tail(appended) ELSE appended)

\* A generate_clip that takes the oldest frames of the ring.
GenerateClipOldest(buffers, c, duration, writer_ok) ==
  IF c \notin DOMAIN buffers \/ buffers[c] = <<>> \/ ~writer_ok
    THEN [ok |-> FALSE, frames |-> <<>>]
    ELSE [ok |-> TRUE,
          frames |-> SubSeq(buffers[c], 1,
                            IF Len(buffers[c]) > duration * CLIP_FPS
                              THEN duration * CLIP_FPS ELSE Len(buffers[c]))]

\* generate_clip(camera_id, output_path, duration), lines 75-107: the frames
\* written, when the writer works.
GenerateClip(buffers, c, duration, writer_ok) ==
  IF c \notin DOMAIN buffers \/ buffers[c] = <<>>
    THEN [ok |-> FALSE, frames |-> <<>>]
    ELSE LET frames == buffers[c]
             \* frames[-duration * 30:]; a start of -0 is the start of the list
             first == IF duration * CLIP_FPS > 0 /\ Len(frames) > duration * CLIP_FPS
                        THEN Len(frames) - duration * CLIP_FPS + 1 ELSE 1
         IN IF writer_ok
              THEN [ok |-> TRUE, frames |-> SubSeq(frames, first, Len(frames))]
              ELSE [ok |-> FALSE, frames |-> <<>>]

\* ------------------------------------------------------------- AlertService
\* How the collaborators of one create_alert call answer.  store: "ok", or
\* "query_raises" (the camera query raises), "image_raises" (the image write
\* raises), "fail" (the commit of the alert raises), each with a rollback that
\* works, or "fatal" (the commit raises and the rollback raises too); clip: the
\* clip writer works; email: "sent", "failed", or "sent_commit_raises" (the
\* commit of email_sent raises).
Outcome(store, clip, email) == [store |-> store, clip |-> clip, email |-> email]

\* What one create_alert call did outside the cooldown map and the alerts
\* table: the image written, the clip frames written, the alert records handed
\* to the store, the emails attempted, the events published.
Effects(image, clip, handed, email) ==
  [image |-> image, clip |-> clip, handed |-> handed, email |-> email, events |-> <<>>]

\* A suppressed call that has already written the alert image.
CreateAlertSuppressedLate(la, table) ==
  [last_alerts |-> la, alerts |-> table, raised |-> FALSE, created |-> FALSE,
   accepted |-> FALSE, effects |-> Effects(TRUE, <<>>, 0, 0)]

\* create_alert, lines 288-291: the gate refuses; la is the cooldown map
\* should_send_alert left.
CreateAlertSuppressed(la, table) ==
  [last_alerts |-> la, alerts |-> table, raised |-> FALSE, created |-> FALSE,
   accepted |-> FALSE, effects |-> Effects(FALSE, <<>>, 0, 0)]

\* A video_path that is kept when no clip was generated.
VideoPathKept(clip) == TRUE

\* create_alert, lines 314-319: video_path is set only when the clip was generated.
VideoPath(clip) == clip.ok

\* An email_sent flag set whatever the notifier answered.
EmailSentAlways(out) == TRUE

\* create_alert, lines 342-355: email_sent is set, and committed, when
\* send_alert_email returned True.
EmailSent(out) == out.email = "sent"

\* create_alert(db, camera_id, alert_type, confidence, frame, metadata) at time
\* t, lines 277-362: the cooldown map and the alerts table it leaves, whether
\* an exception leaves the call, whether it returns the alert, and what else
\* it did.
CreateAlert(la, table, rows, buffers, c, alert_type, confidence, t, out) ==
  LET gate == ShouldSendAlert(la, <<c, alert_type>>, t)
      clip == GenerateClip(buffers, c, VIDEO_CLIP_DURATION, out.clip)
      alert == [camera_id |-> c, alert_type |-> alert_type, confidence |-> confidence,
                video |-> VideoPath(clip), email_sent |-> EmailSent(out), time |-> t]
  IN IF ~gate.ok
       THEN CreateAlertSuppressed(gate.last_alerts, table)
     ELSE IF out.store = "query_raises" \/ c \notin DOMAIN rows
              \/ out.store = "image_raises"
       THEN [last_alerts |-> gate.last_alerts, alerts |-> table, raised |-> FALSE,
             created |-> FALSE, accepted |-> TRUE,
             effects |-> Effects(FALSE, <<>>, 0, 0)]
     ELSE IF out.store = "fail"
       THEN [last_alerts |-> gate.last_alerts, alerts |-> table, raised |-> FALSE,
             created |-> FALSE, accepted |-> TRUE,
             effects |-> Effects(TRUE, clip.frames, 1, 0)]
     ELSE IF out.store = "fatal"
       THEN [last_alerts |-> gate.last_alerts, alerts |-> table, raised |-> TRUE,
             created |-> FALSE, accepted |-> TRUE,
             effects |-> Effects(TRUE, clip.frames, 1, 0)]
     ELSE IF out.email = "sent_commit_raises"
       THEN [last_alerts |-> gate.last_alerts,
             alerts |-> Append(table, [alert EXCEPT !.email_sent = FALSE]),
             raised |-> FALSE, created |-> FALSE, accepted |-> TRUE,
             effects |-> Effects(TRUE, clip.frames, 1, 1)]
     ELSE [last_alerts |-> CleanupOldEntries(gate.last_alerts, t),
           alerts |-> Append(table, alert), raised |-> FALSE, created |-> TRUE,
           accepted |-> TRUE, effects |-> Effects(TRUE, clip.frames, 1, 1)]

\* ----------------------------------------------------------- VideoProcessor
\* _handle_detections(db, camera_id, frame, detections), lines 115-160: one
\* create_alert per detected condition, in the order fall, lying, pushing,
\* crowd; an exception leaving create_alert ends it.
HandleDetections(la, table, rows, buffers, c, det, t, outs) ==
  LET Step(st, alert_type) ==
        IF st.raised \/ ~det[alert_type].detected
          THEN st
          ELSE LET r == CreateAlert(st.last_alerts, st.alerts, rows, buffers, c,
                                    alert_type, det[alert_type].confidence, t,
                                    outs[alert_type])
               IN [last_alerts |-> r.last_alerts, alerts |-> r.alerts,
                   raised |-> r.raised]
      s0 == [last_alerts |-> la, alerts |-> table, raised |-> FALSE]
  IN Step(Step(Step(Step(s0, "fall"), "lying"), "pushing"), "crowd")

\* A _process_camera without its handler: the exception reaches the handler of
\* the while loop and the rest of the for loop is skipped.
AfterCameraFaultEscapes == "except"

\* Where the loop goes on after an exception in _process_camera: the handler of
\* lines 112-113 returns to the for loop of line 59.
AfterCameraFault == "for"

\* A while loop without its handler: the exception ends the thread.
AfterLoopFaultEnds == "exited"

\* Where the loop goes on after an exception in the body of the while loop:
\* the handler of lines 67-69.
AfterLoopFault == "except"

SetThread(th, t) == threads' = [threads EXCEPT ![th] = t]

\* A sampling that lets every frame through.
SampledAlways(frame) == TRUE

\* _process_camera, lines 91-93: only a frame whose frame_number is a multiple
\* of PROCESS_EVERY_N_FRAMES goes on to detection.
Sampled(frame) == frame.frame_number % PROCESS_EVERY_N_FRAMES = 0

\* A ring that receives only the frames that go on to detection.
RingAfterPullSampled(buffers, c, frame) ==
  IF frame.frame_number % PROCESS_EVERY_N_FRAMES = 0
    THEN AddFrame(buffers, c, frame) ELSE buffers

\* _process_camera, lines 88-89: the pulled frame goes to the ring of its
\* camera before anything is decided about it.
RingAfterPull(buffers, c, frame) == AddFrame(buffers, c, frame)

\* _process_camera, lines 75-108: where the call for camera c leaves the
\* method, given the frame get_frame returned and whether the camera query
\* raises.
PullOutcome(c, frame, query_raises) ==
  IF frame = NoFrame THEN "no_frame"
  ELSE IF ~Sampled(frame) THEN "not_sampled"
  ELSE IF query_raises THEN "query_raised"
  ELSE IF c \notin DOMAIN camera_rows THEN "no_row"
  ELSE "forwarded"

\* _process_camera(db, camera_id), lines 71-113, run by thread th for camera c
\* of its for loop: obs is what the detectors see in the frame, query_raises
\* whether the camera query of line 96 raises, outs how the collaborators of
\* create_alert answer for each alert type.
ProcessCameraBody(th, c, obs, query_raises, outs) ==
  LET gf == GetFrame(c)
      frame == gf.frame
      outcome == PullOutcome(c, frame, query_raises)
      counter == IF c \in DOMAIN frame_counter THEN frame_counter
                 ELSE Put(frame_counter, c, 0)
      pf == ProcessFrame(lying_tracker, prev_frame, c, frame, camera_rows[c], obs, now)
      hd == HandleDetections(last_alerts, alerts, camera_rows, frame_buffers', c,
                             pf.detections, now, outs)
      me == threads[th]
      visit == [me EXCEPT !.pending = @ \ {c}, !.visited = @ \cup {c}]
  IN /\ frame_queues' = gf.queues
     /\ IF outcome = "no_frame"
          THEN /\ SetThread(th, visit)
               /\ UNCHANGED <<frame_counter, frame_buffers, dedupVars, detVars, alerts>>
          ELSE /\ frame_buffers' = RingAfterPull(frame_buffers, c, frame)
               /\ IF outcome = "not_sampled"
                    THEN /\ frame_counter' = counter
                         /\ SetThread(th, [visit EXCEPT !.pulled = @ \cup {c}])
                         /\ UNCHANGED <<dedupVars, detVars, alerts>>
                  ELSE IF outcome = "query_raised"
                    THEN /\ frame_counter' = counter
                         /\ SetThread(th, [visit EXCEPT !.pulled = @ \cup {c},
                                                        !.fault = @ \cup {"camera"},
                                                        !.pc = AfterCameraFault])
                         /\ UNCHANGED <<dedupVars, detVars, alerts>>
                  ELSE IF outcome = "no_row"
                    THEN /\ frame_counter' = counter
                         /\ SetThread(th, [visit EXCEPT !.pulled = @ \cup {c}])
                         /\ UNCHANGED <<dedupVars, detVars, alerts>>
                  ELSE /\ lying_tracker' = pf.lying_tracker
                       /\ prev_frame' = pf.prev_frame
                       /\ last_alerts' = hd.last_alerts
                       /\ alerts' = hd.alerts
                       /\ frame_counter' = IF hd.raised THEN counter
                                           ELSE [counter EXCEPT ![c] = @ + 1]
                       /\ SetThread(th, IF hd.raised
                                          THEN [visit EXCEPT !.pulled = @ \cup {c},
                                                             !.fault = @ \cup {"camera"},
                                                             !.pc = AfterCameraFault]
                                          ELSE [visit EXCEPT !.pulled = @ \cup {c}])
                       /\ UNCHANGED <<dedup_log, report, run_start>>
     /\ UNCHANGED <<alert_call, clip_call, detect_call, stop_call, app_state, hubVars, evaluations,
                    processes,
                    stop_events, camera_info, stopping, live_workers,
                    last_call, evicted, now, running, camera_rows>>

ProcessCamera(th, c, obs, query_raises, outs) ==
  /\ ProcessCameraBody(th, c, obs, query_raises, outs)
  /\ UNCHANGED pull_call

\* The same call, leaving in pull_call the frame that was pulled, where the
\* call left the method, and whether the ring of the camera, the detection
\* state and the alerts table changed.
ProcessCameraTraced(th, c, obs, query_raises, outs) ==
  /\ ProcessCameraBody(th, c, obs, query_raises, outs)
  /\ pull_call' = [op |-> "process_camera", camera_id |-> c,
                   frame |-> GetFrame(c).frame,
                   row |-> c \in DOMAIN camera_rows,
                   query_raises |-> query_raises,
                   outcome |-> PullOutcome(c, GetFrame(c).frame, query_raises),
                   appended |-> frame_buffers' # frame_buffers,
                   evaluated |-> detVars' # detVars \/ dedupVars' # dedupVars,
                   alerted |-> alerts' # alerts]

\* start(), lines 30-39.
StartProcessor ==
  /\ IF running
       THEN UNCHANGED <<running, threads>>
       ELSE /\ \E th \in DOMAIN threads :
                 /\ threads[th].pc \in {"none", "exited"}
                 /\ SetThread(th, [NoThread EXCEPT !.pc = "while"])
            /\ running' = TRUE
  /\ UNCHANGED <<mgrVars, extVars, now, dedupVars, detVars, frame_counter, frame_buffers, alerts,
                 camera_rows>>

\* stop(), lines 41-46: the join returns when the thread has ended or after
\* its timeout.
StopProcessor ==
  /\ running' = FALSE
  /\ UNCHANGED <<mgrVars, extVars, now, dedupVars, detVars, threads, frame_counter, frame_buffers,
                 alerts, camera_rows>>

\* _processing_loop, line 52: while self.running
LoopWhile(th) ==
  /\ threads[th].pc = "while"
  /\ SetThread(th, IF running THEN [threads[th] EXCEPT !.pc = "session"]
                              ELSE [threads[th] EXCEPT !.pc = "exited"])
  /\ UNCHANGED <<mgrVars, extVars, now, dedupVars, detVars, running, frame_counter, frame_buffers,
                 alerts, camera_rows>>

\* _processing_loop, lines 54-57: open a session (which may raise) and list the
\* running cameras.
LoopSession(th) ==
  /\ threads[th].pc = "session"
  /\ \E raises \in BOOLEAN :
       SetThread(th, IF raises
                       THEN [threads[th] EXCEPT !.pc = AfterLoopFault, !.fault = @ \cup {"loop"}]
                       ELSE [threads[th] EXCEPT !.pc = "for",
                                                !.pending = GetRunningCameras,
                                                !.pulled = {}, !.visited = {},
                                                !.fault = {}])
  /\ UNCHANGED <<mgrVars, extVars, now, dedupVars, detVars, running, frame_counter, frame_buffers,
                 alerts, camera_rows>>

\* _processing_loop, lines 59-65: the for loop over the running cameras, then
\* db.close() (which may raise) and the short sleep.
LoopForEnd(th) ==
  /\ \E raises \in BOOLEAN :
       SetThread(th, IF raises
                       THEN [threads[th] EXCEPT !.pc = AfterLoopFault,
                                                !.fault = @ \cup {"loop"}]
                       ELSE [threads[th] EXCEPT !.pc = "while"])
  /\ UNCHANGED <<mgrVars, extVars, now, dedupVars, detVars, running, frame_counter,
                 frame_buffers, alerts, camera_rows>>

LoopFor(th, obs, query_raises, outs) ==
  /\ threads[th].pc = "for"
  /\ IF threads[th].pending # {}
       THEN \E c \in threads[th].pending : ProcessCamera(th, c, obs, query_raises, outs)
       ELSE LoopForEnd(th)

\* The same step of the for loop, with the call of _process_camera recorded.
LoopForTraced(th, obs, query_raises, outs) ==
  /\ threads[th].pc = "for"
  /\ IF threads[th].pending # {}
       THEN \E c \in threads[th].pending :
              ProcessCameraTraced(th, c, obs, query_raises, outs)
       ELSE LoopForEnd(th)

\* _processing_loop, lines 67-69: log, sleep a second, go on.
LoopExcept(th) ==
  /\ threads[th].pc = "except"
  /\ SetThread(th, [threads[th] EXCEPT !.pc = "while"])
  /\ UNCHANGED <<mgrVars, extVars, now, dedupVars, detVars, running, frame_counter, frame_buffers,
                 alerts, camera_rows>>

\* delete_camera of the cameras API: the row of a camera goes.
DeleteCamera(c) ==
  /\ c \in DOMAIN camera_rows
  /\ camera_rows' = Del(camera_rows, c)
  /\ UNCHANGED <<mgrVars, extVars, now, dedupVars, detVars, running, threads, frame_counter,
                 frame_buffers, alerts>>

\* -------------------------------------------------------- ConnectionManager

Range(seq) == {seq[i] : i \in DOMAIN seq}

\* list.remove(x): the first occurrence of x leaves the list.
ListRemove(seq, x) ==
  LET first == CHOOSE i \in DOMAIN seq :
                 seq[i] = x /\ \A j \in 1..(i - 1) : seq[j] # x
  IN  SubSeq(seq, 1, first - 1) \o SubSeq(seq, first + 1, Len(seq))

\* The second loop of broadcast: every websocket whose send raised leaves the
\* list if it is still in it.
RECURSIVE Prune(_, _)
Prune(conns, disconnected) ==
  IF disconnected = <<>> THEN conns
  ELSE Prune(IF Head(disconnected) \in Range(conns)
               THEN ListRemove(conns, Head(disconnected)) ELSE conns,
             Tail(disconnected))

\* websocket_endpoint up to its try block: the websocket is accepted and
\* appended.  A websocket object connects once.
Connect(s) ==
  /\ channels[s].state = "new"
  /\ active_connections' = Append(active_connections, s)
  /\ channels' = [channels EXCEPT ![s].state = "open"]
  /\ UNCHANGED <<mgrVars, now, dedupVars, detVars, procVars, callVars, app_state, evaluations,
                 broadcasts, delivered>>

\* disconnect(websocket), lines 24-27: list.remove raises ValueError for a
\* websocket that is not in the list.
DisconnectRaises(conns, s) == s \notin Range(conns)

\* The except branches of websocket_endpoint: the peer is gone and
\* manager.disconnect removes the websocket.  If a broadcast pruned it before,
\* list.remove raises ValueError out of the endpoint and the list stays; the
\* endpoint then ends in state "raised" instead of "closed".
Disconnect(s) ==
  /\ channels[s].state = "open"
  /\ active_connections' = IF DisconnectRaises(active_connections, s)
                             THEN active_connections
                             ELSE ListRemove(active_connections, s)
  /\ channels' = [channels EXCEPT
                    ![s].state = IF DisconnectRaises(active_connections, s)
                                   THEN "raised" ELSE "closed"]
  /\ UNCHANGED <<mgrVars, now, dedupVars, detVars, procVars, callVars, app_state, evaluations,
                 broadcasts, delivered>>

\* A broadcast coroutine: the message, how many elements its for loop has
\* taken from active_connections (the list iterator's index), the websocket
\* whose send_json it awaits, and its disconnected list.  registered and
\* attempted record the list at the call and the websockets it sent to.
Coroutine(event, conns) ==
  [event |-> event, i |-> 0, at |-> 0, disconnected |-> <<>>, pc |-> "for",
   registered |-> Range(conns), attempted |-> <<>>]

\* The for loop of broadcast from its head to the next await: the iterator
\* takes active_connections[i] of the list as it is now and send_json is
\* requested on it; when the iterator is exhausted the second loop prunes and
\* the coroutine is done.
ForLoop(conns, co) ==
  IF co.i < Len(conns)
    THEN [co |-> [co EXCEPT !.i = co.i + 1, !.at = conns[co.i + 1],
                            !.attempted = Append(co.attempted, conns[co.i + 1]),
                            !.pc = "send"],
          conns |-> conns]
    ELSE [co |-> [co EXCEPT !.at = 0, !.pc = "done"],
          conns |-> Prune(conns, co.disconnected)]

\* The send requested by coroutine b joins the sends awaited on its websocket.
Requested(chan, b, co) ==
  IF co.pc = "send"
    THEN [chan EXCEPT ![co.at].sending = Append(chan[co.at].sending, b)]
    ELSE chan

\* manager.broadcast(message) is called and runs to its first await.
BroadcastCall ==
  /\ Len(broadcasts) < MaxBroadcasts
  /\ LET b == Len(broadcasts) + 1
         step == ForLoop(active_connections, Coroutine(b, active_connections))
     IN  /\ broadcasts' = Append(broadcasts, step.co)
         /\ active_connections' = step.conns
         /\ channels' = Requested(channels, b, step.co)
  /\ UNCHANGED <<mgrVars, now, dedupVars, detVars, procVars, callVars, app_state, evaluations, delivered>>

\* The send_json awaited by coroutine b completes (ok) or raises, and the
\* coroutine runs on to its next await or to its end.  A websocket completes
\* its sends in the order they were requested; a send on a websocket whose
\* peer is gone raises.
BroadcastResume(b, ok) ==
  /\ b \in DOMAIN broadcasts
  /\ broadcasts[b].pc = "send"
  /\ LET co == broadcasts[b]
         s == co.at
         after == IF ok THEN co
                  ELSE [co EXCEPT !.disconnected = Append(co.disconnected, s)]
         step == ForLoop(active_connections, after)
     IN  /\ Head(channels[s].sending) = b
         /\ ok => channels[s].state = "open"
         /\ delivered' = IF ok THEN [delivered EXCEPT ![s] = Append(@, co.event)]
                         ELSE delivered
         /\ broadcasts' = [broadcasts EXCEPT ![b] = step.co]
         /\ active_connections' = step.conns
         /\ channels' = Requested([channels EXCEPT ![s].sending = Tail(@)],
                                  b, step.co)
  /\ UNCHANGED <<mgrVars, now, dedupVars, detVars, procVars, callVars, app_state, evaluations>>

\* -------------------------------------------------------------- alert runs
\* create_alert calls on their own: any camera, any answer of the
\* collaborators; camera 1 has frames in its ring and the other cameras have
\* no ring; camera rows are deleted in between.
AlertCallTypes == {"fall"}

AlertOutcomes ==
  { Outcome("ok", TRUE, "sent"), Outcome("ok", FALSE, "sent"),
    Outcome("ok", TRUE, "failed"), Outcome("ok", TRUE, "sent_commit_raises"),
    Outcome("query_raises", TRUE, "sent"), Outcome("image_raises", TRUE, "sent"),
    Outcome("fail", TRUE, "sent"), Outcome("fatal", TRUE, "sent") }

CreateAlertCall(c, alert_type, out) ==
  LET r == CreateAlert(last_alerts, alerts, camera_rows, frame_buffers, c, alert_type,
                       90, now, out)
  IN /\ last_alerts' = r.last_alerts
     /\ alerts' = r.alerts
     /\ alert_call' = [op |-> "create_alert", camera_id |-> c, alert_type |-> alert_type,
                       time |-> now, out |-> out,
                       row |-> c \in DOMAIN camera_rows,
                       ring |-> IF c \in DOMAIN frame_buffers THEN frame_buffers[c]
                                ELSE <<>>,
                       before |-> [last_alerts |-> last_alerts, alerts |-> alerts],
                       after |-> [last_alerts |-> r.last_alerts, alerts |-> r.alerts],
                       accepted |-> r.accepted, created |-> r.created,
                       raised |-> r.raised, effects |-> r.effects]
     /\ UNCHANGED <<mgrVars, now, dedup_log, detVars, running, threads, frame_counter,
                    frame_buffers, camera_rows, clip_call, detect_call, pull_call, stop_call,
                    app_state, hubVars,
                    evaluations>>

\* add_frame_to_buffer(camera_id, frame, timestamp), lines 273-275, with the
\* next frame of the camera.
AddFrameCall(c, maxf) ==
  LET n == IF c \in DOMAIN frame_buffers /\ frame_buffers[c] # <<>>
             THEN frame_buffers[c][Len(frame_buffers[c])].frame_number + 1
             ELSE 0
  IN /\ n < maxf
     /\ frame_buffers' = AddFrame(frame_buffers, c, [camera_id |-> c, frame_number |-> n])
     /\ clip_call' = NoClipCall
     /\ UNCHANGED <<mgrVars, alert_call, detect_call, pull_call, stop_call, app_state, hubVars, evaluations, now,
                    dedupVars, detVars, running,
                    threads, frame_counter, alerts, camera_rows>>

InitAlert ==
  /\ InitManager
  /\ now = 0
  /\ InitDeduplicator
  /\ InitDetection
  /\ alert_call = NoAlertCall
  /\ clip_call = NoClipCall
  /\ detect_call = NoDetectCall
  /\ pull_call = NoPullCall
  /\ stop_call = NoStopCall
  /\ app_state = "up"
  /\ evaluations = [th \in AnalysisThreads |-> NoEvaluation]
  /\ InitHub
  /\ running = FALSE
  /\ threads = [th \in LoopThreads |-> NoThread]
  /\ frame_counter = <<>>
  /\ frame_buffers = [c \in {1} |-> [i \in 1..MaxRingFrames |->
                                        [camera_id |-> c, frame_number |-> i - 1]]]
  /\ alerts = <<>>
  /\ camera_rows = [c \in Cameras |-> CROWD_THRESHOLD]

NextAlert ==
  \/ \E c \in Cameras, alert_type \in AlertCallTypes, out \in AlertOutcomes :
       CreateAlertCall(c, alert_type, out)
  \/ \E c \in Cameras : DeleteCamera(c)

SpecAlert == InitAlert /\ [][NextAlert]_vars

\* ---------------------------------------------------------------- hub runs

\* Websockets connect and go away while broadcasts are called and proceed.
InitHubRuns ==
  /\ InitManager
  /\ now = 0
  /\ InitDeduplicator
  /\ InitDetection
  /\ InitProcessor

NextHub ==
  \/ \E s \in Subscribers : Connect(s)
  \/ \E s \in Subscribers : Disconnect(s)
  \/ BroadcastCall
  \/ \E b \in 1..MaxBroadcasts, ok \in BOOLEAN : BroadcastResume(b, ok)

SpecHub == InitHubRuns /\ [][NextHub]_vars

\* --------------------------------------------------------------- clip runs

\* The durations generate_clip is called with: one second, the default of its
\* parameter, and the configured duration create_alert passes.
ClipDurations == {1, 10, VIDEO_CLIP_DURATION}

\* video_generator.generate_clip(camera_id, path, duration) on the rings as
\* they are; clip_call records the ring it found and what it wrote.
GenerateClipCall(c, duration, writer_ok) ==
  LET clip == GenerateClip(frame_buffers, c, duration, writer_ok)
  IN /\ clip_call' = [op |-> "generate_clip", camera_id |-> c,
                       duration |-> duration, writer_ok |-> writer_ok,
                       ring |-> IF c \in DOMAIN frame_buffers
                                  THEN frame_buffers[c] ELSE <<>>,
                       ok |-> clip.ok, frames |-> clip.frames]
     /\ UNCHANGED <<mgrVars, alert_call, detect_call, pull_call, stop_call, app_state, hubVars, evaluations, now,
                    dedupVars, detVars, procVars>>

\* Camera 1 receives frames, camera 2 never does and has no ring.
NextClip ==
  \/ AddFrameCall(1, MaxClipFrames)
  \/ \E c \in Cameras, duration \in ClipDurations, writer_ok \in BOOLEAN :
       GenerateClipCall(c, duration, writer_ok)

SpecClip == InitHubRuns /\ [][NextClip]_vars

\* ------------------------------------------------------------ manager runs
\* The manager as constructed; cameras are started and stopped, and each
\* worker runs against a source of MaxRegFrames frames.
Init ==
  /\ InitManager
  /\ now = 0
  /\ InitDeduplicator
  /\ InitDetection
  /\ InitProcessor

Next ==
  \/ \E c \in Cameras : StartCamera(c)
  \/ \E c \in Cameras : StopCamera(c)
  \/ \E c \in Cameras : WorkerShortSource(c)

Spec == Init /\ [][Next]_vars

\* --------------------------------------------------------------- pull runs

\* Source 1 has been started; its worker fills the queue and evicts from it
\* while the processing loop pulls from it.  The detectors see nothing and
\* every collaborator works.
NextPull ==
  \/ Worker(1, MaxFrames)
  \/ StartProcessor
  \/ \E th \in LoopThreads : LoopWhile(th)
  \/ \E th \in LoopThreads : LoopSession(th)
  \/ \E th \in LoopThreads :
       LoopFor(th, Obs(FALSE, 0, FALSE, 0, 0, 0, FALSE, FALSE, 0), FALSE,
               [t \in AlertTypes |-> Outcome("ok", TRUE, "sent")])
  \/ \E th \in LoopThreads : LoopExcept(th)

SpecPull == InitQueue /\ [][NextPull]_vars

\* --------------------------------------------------------------- stop runs
\* The source of the stop runs has this many frames.
MaxStopFrames == 4

\* The steps of the worker of source 1 on a source shorter than its queue.
StopRunWorker ==
  \/ WorkerOpen(1)
  \/ WorkerLoop(1)
  \/ WorkerRead(1, MaxStopFrames)
  \/ WorkerRelease(1)
  \/ WorkerReopen(1)
  \/ WorkerFull(1)
  \/ WorkerPut(1)

\* Source 1 has been started; stop_camera is called at any moment of its
\* worker, whose process is always scheduled, and the wait of stop_camera ends
\* at any later moment.
NextStop ==
  \/ StopRunWorker
  \/ StopCameraSignalTraced(1)
  \/ StopCameraFinish(1)

SpecStop == InitQueue /\ [][NextStop]_vars /\ WF_vars(StopRunWorker)

\* ----------------------------------------------------------- shutdown runs
\* shutdown_event(), main.py lines 49-52: the handler writes a log line; it
\* calls neither VideoProcessor.stop nor CameraManager.stop_all.
ShutdownEvent ==
  /\ app_state = "up"
  /\ app_state' = "shutdown"
  /\ UNCHANGED <<mgrVars, now, dedupVars, detVars, procVars, callVars, hubVars,
                 evaluations>>

\* Source 1 has been started; the processor is started, the loop pulls the
\* frames of the worker, and the application is shut down at any moment.  The
\* detectors see nothing.
NextShutdown ==
  \/ StopRunWorker
  \/ StartProcessor
  \/ \E th \in LoopThreads : LoopWhile(th)
  \/ \E th \in LoopThreads : LoopSession(th)
  \/ \E th \in LoopThreads :
       LoopForTraced(th, Obs(FALSE, 0, FALSE, 0, 0, 0, FALSE, FALSE, 0), FALSE,
                     [t \in AlertTypes |-> Outcome("ok", TRUE, "sent")])
  \/ \E th \in LoopThreads : LoopExcept(th)
  \/ ShutdownEvent

SpecShutdown == InitQueue /\ [][NextShutdown]_vars

\* ------------------------------------------------------------ restart runs
\* Threads that start() may create in the restart runs.
MaxRestartThreads == 2

RestartThreads == 1..MaxRestartThreads

\* The processor as constructed, no camera started; start() and stop() are
\* called in any order and at any moment of the loop threads.
InitRestart ==
  /\ InitManager
  /\ now = 0
  /\ InitDeduplicator
  /\ InitDetection
  /\ InitProcessorThreads(RestartThreads)

NextRestart ==
  \/ StartProcessor
  \/ StopProcessor
  \/ \E th \in RestartThreads : LoopWhile(th)
  \/ \E th \in RestartThreads : LoopSession(th)
  \/ \E th \in RestartThreads :
       LoopFor(th, Obs(FALSE, 0, FALSE, 0, 0, 0, FALSE, FALSE, 0), FALSE,
               [t \in AlertTypes |-> Outcome("ok", TRUE, "sent")])
  \/ \E th \in RestartThreads : LoopExcept(th)

SpecRestart == InitRestart /\ [][NextRestart]_vars

\* ------------------------------------------------------ endless-source runs
\* Frame numbers are counted modulo FrameCycle in these runs.  The sampling
\* test of _process_camera sees a frame number only modulo
\* PROCESS_EVERY_N_FRAMES, of which FrameCycle is a multiple, and FrameCycle
\* is larger than the queue, so that the frames of a queue stay distinct.
FrameCycle == 4 * PROCESS_EVERY_N_FRAMES

\* run(), lines 66-78, on a source that never ends: put_nowait(frame_data)
\* and frame_count += 1.
WorkerPutCyclic(c) ==
  /\ c \in DOMAIN processes
  /\ processes[c].pc = "put"
  /\ LET r == QueuePutNowait(frame_queues[c], processes[c].frame) IN
       /\ frame_queues' = [frame_queues EXCEPT ![c] = r.queue]
       /\ SetProc(c, [processes[c] EXCEPT
                        !.pc = "loop",
                        !.frame = NoFrame,
                        !.frame_count = IF r.ok THEN (@ + 1) % FrameCycle ELSE @])
  /\ UNCHANGED <<stop_events, camera_info, stopping, evicted, pipeline>>

\* The steps of the worker of source 1 on a source that never ends.
EndlessWorker ==
  \/ WorkerOpen(1)
  \/ WorkerLoop(1)
  \/ WorkerRead(1, FrameCycle)
  \/ WorkerRelease(1)
  \/ WorkerReopen(1)
  \/ WorkerFull(1)
  \/ WorkerEvict(1)
  \/ WorkerPutCyclic(1)

\* Source 1 has been started; its worker and the get_frame calls of the
\* processing loop go on for ever, each of them always scheduled again.
NextEndless ==
  \/ EndlessWorker
  \/ GetFrameCall(1)

SpecEndless ==
  InitQueue /\ [][NextEndless]_vars /\ WF_vars(EndlessWorker) /\ WF_vars(GetFrameCall(1))

\* --------------------------------------------------------------- ring runs
\* Frames handed to the ring of camera 2 in the ring runs.
MaxOtherFrames == 3

\* Frames are added to the rings of two cameras in any order; the ring of
\* camera 1 receives more frames than it holds.
NextRing ==
  \/ AddFrameCall(1, MaxClipFrames)
  \/ AddFrameCall(2, MaxOtherFrames)

SpecRing == InitHubRuns /\ [][NextRing]_vars

\* ------------------------------------------------------------- sample runs
\* The source of the sample runs has this many frames: fewer than the queue
\* holds, so that the worker never has to make room.
MaxSampleFrames == 7

\* What the detectors see in the frames of the sample runs: nothing, or a fall.
SampleObs ==
  { Obs(FALSE, 0, FALSE, 0, 0, 0, FALSE, FALSE, 0),
    Obs(TRUE, 90, FALSE, 0, 1, 90, FALSE, FALSE, 0) }

\* Source 1 has been started; its worker fills the queue while the processing
\* loop pulls from it, the camera query works or raises, and the row of the
\* camera may be deleted at any moment.  Every collaborator of create_alert
\* works.
NextSample ==
  \/ WorkerOpen(1)
  \/ WorkerLoop(1)
  \/ WorkerRead(1, MaxSampleFrames)
  \/ WorkerRelease(1)
  \/ WorkerReopen(1)
  \/ WorkerFull(1)
  \/ WorkerPut(1)
  \/ StartProcessor
  \/ \E th \in LoopThreads : LoopWhile(th)
  \/ \E th \in LoopThreads : LoopSession(th)
  \/ \E th \in LoopThreads, obs \in SampleObs, q \in BOOLEAN :
       LoopForTraced(th, obs, q, [t \in AlertTypes |-> Outcome("ok", TRUE, "sent")])
  \/ \E th \in LoopThreads : LoopExcept(th)
  \/ DeleteCamera(1)

SpecSample == InitQueue /\ [][NextSample]_vars

\* ------------------------------------------------------- multi-source runs
\* What the detectors see in the frames of the multi-source runs: nothing, a
\* fall, and a fall on a frame whose crowd computation raises.
LoopObs ==
  { Obs(FALSE, 0, FALSE, 0, 0, 0, FALSE, FALSE, 0),
    Obs(TRUE, 90, FALSE, 0, 1, 90, FALSE, FALSE, 0),
    Obs(TRUE, 90, FALSE, 0, 1, 90, TRUE, FALSE, 0) }

\* How the store, the clip writer and the notifier answer in these runs.
LoopOutcomes ==
  { Outcome("ok", TRUE, "sent"), Outcome("ok", FALSE, "failed"),
    Outcome("fail", TRUE, "sent"), Outcome("fatal", TRUE, "sent") }

LoopOuts == { [t \in AlertTypes |-> a] : a \in LoopOutcomes }

\* Every camera has been started (start_camera, lines 112-146) and the
\* processor has not.
InitLoop ==
  /\ processes = [c \in Cameras |-> NewProcess]
  /\ stop_events = [c \in Cameras |-> FALSE]
  /\ frame_queues = [c \in Cameras |-> <<>>]
  /\ camera_info = Cameras
  /\ stopping = {}
  /\ live_workers = [c \in Cameras |-> 1]
  /\ last_call = NoCall
  /\ evicted = [frame |-> NoFrame, before |-> <<>>]
  /\ now = 0
  /\ InitDeduplicator
  /\ InitDetection
  /\ InitProcessor

NextLoop ==
  \/ \E c \in Cameras : WorkerShortSource(c)
  \/ StartProcessor
  \/ StopProcessor
  \/ \E th \in LoopThreads : LoopWhile(th)
  \/ \E th \in LoopThreads : LoopSession(th)
  \/ \E th \in LoopThreads, obs \in LoopObs, q \in BOOLEAN, outs \in LoopOuts :
       LoopFor(th, obs, q, outs)
  \/ \E th \in LoopThreads : LoopExcept(th)

SpecLoop == InitLoop /\ [][NextLoop]_vars

\* ------------------------------------------------------------------ claims
FrameNumbers(q) == {q[i].frame_number : i \in 1..Len(q)}

\* C1: a SourceBuffer never holds more than QueueMaxSize frames, and a frame
\* the worker evicts to make room is the one with the lowest sequence number
\* in the buffer at that moment.
C1_BufferBounded ==
  /\ \A c \in DOMAIN frame_queues : Len(frame_queues[c]) <= QueueMaxSize
  /\ evicted.frame # NoFrame =>
       /\ evicted.frame.frame_number \in FrameNumbers(evicted.before)
       /\ \A n \in FrameNumbers(evicted.before) : evicted.frame.frame_number <= n

\* C1 witness: frames 0..10 were inserted into the full buffer, frame 0 was
\* evicted and frames 1..10 remain.
C1_Witness ==
  /\ evicted.frame = [camera_id |-> 1, frame_number |-> 0]
  /\ Len(evicted.before) = QueueMaxSize
  /\ frame_queues[1] = [i \in 1..QueueMaxSize |-> [camera_id |-> 1, frame_number |-> i]]

\* C2: two should_send_alert calls for the same key that both return true are
\* at least ALERT_COOLDOWN_SECONDS apart, also when the entry was purged in
\* between.
C2_AcceptedApart ==
  \A i, j \in 1..Len(dedup_log) :
    (i < j /\ dedup_log[i].key = dedup_log[j].key /\ dedup_log[i].ok /\ dedup_log[j].ok)
      => dedup_log[j].time - dedup_log[i].time >= ALERT_COOLDOWN_SECONDS

\* C2 witness: a key accepted, purged, and accepted again.
C2_Witness ==
  \E i, j \in 1..Len(dedup_log) :
    /\ i < j /\ dedup_log[i].key = dedup_log[j].key
    /\ dedup_log[i].ok /\ dedup_log[j].ok
    /\ dedup_log[j].key \notin DOMAIN dedup_log[j].before

\* C3: the first call for a key records the time and returns true; a later
\* call returns true and overwrites the time iff at least
\* ALERT_COOLDOWN_SECONDS have passed since the recorded time; otherwise it
\* returns false and leaves the recorded time unchanged.
C3_GateContract ==
  \A i \in 1..Len(dedup_log) :
    LET e == dedup_log[i] IN
      /\ e.key \notin DOMAIN e.before => e.ok
      /\ e.key \in DOMAIN e.before =>
           (e.ok <=> e.time - e.before[e.key] >= ALERT_COOLDOWN_SECONDS)
      /\ e.ok => (e.key \in DOMAIN e.after /\ e.after[e.key] = e.time)
      /\ ~e.ok => e.after = e.before

\* C3 witness: calls for one key at t = 0, 30, 61 returned true, false, true.
C3_Witness ==
  /\ Len(dedup_log) = 3
  /\ \A i \in 1..3 : dedup_log[i].key = <<1, "fall">>
  /\ dedup_log[1].time = 0 /\ dedup_log[1].ok
  /\ dedup_log[2].time = 30 /\ ~dedup_log[2].ok
  /\ dedup_log[3].time = 61 /\ dedup_log[3].ok

\* C4: per source, the lying report is detected exactly when the observation
\* qualifies and the time since the first qualifying observation of the
\* current run has reached LYING_TIME_THRESHOLD; an observation that does not
\* qualify removes the window.
C4_LyingDebounce ==
  /\ report.evaluated =>
       (report.lying.detected <=>
          (report.qualifies
             /\ report.time - run_start[report.camera_id] >= LYING_TIME_THRESHOLD))
  /\ \A c \in Cameras : (c \in DOMAIN lying_tracker) <=> (run_start[c] # -1)

\* C4 witness: a run that started at t = 0 is first reported detected at t = 5.
C4_Witness ==
  /\ report.evaluated /\ report.camera_id = 1 /\ report.lying.detected
  /\ report.time = LYING_TIME_THRESHOLD /\ run_start[1] = 0

\* C5: get_frame returns the newest frame held in the source's buffer, or
\* none when the buffer is empty or the source is not registered.
C5_GetFrameNewest ==
  last_call.op = "get_frame" =>
    last_call.frame = IF last_call.before = <<>>
                        THEN NoFrame
                        ELSE last_call.before[Len(last_call.before)]

\* C6: a worker ends only when its stop event is set: neither a source that
\* cannot be opened nor a failed read ends it.
C6_FaultNeverEndsWorker ==
  \A c \in DOMAIN processes : ~IsAlive(processes[c]) => stop_events[c]

\* C7: start_camera for a camera that is registered returns false and leaves
\* the registry, the worker, the queue and the stop event of every camera as
\* they are; no camera ever has more than one worker running.
C7_StartRegistered ==
  /\ [](\A c \in Cameras : live_workers[c] <= 1)
  /\ [][(last_call'.op = "start_camera" /\ last_call'.camera_id \in DOMAIN processes)
         => (~last_call'.ok
               /\ UNCHANGED <<processes, stop_events, frame_queues, camera_info,
                              live_workers>>)]_vars

\* C7 witness: start_camera has just returned false for a camera whose worker
\* is running.
C7_Witness ==
  /\ last_call.op = "start_camera" /\ ~last_call.ok
  /\ last_call.camera_id \in DOMAIN processes
  /\ live_workers[last_call.camera_id] = 1

\* C8: stop_camera for a camera that is not registered returns false and
\* leaves the registry and every camera's worker, queue and stop event as they
\* are.
C8_StopAbsent ==
  [][(last_call'.op = "stop_camera" /\ last_call'.camera_id \notin DOMAIN processes)
      => (~last_call'.ok
            /\ UNCHANGED <<processes, stop_events, frame_queues, camera_info,
                           live_workers>>)]_vars

\* C8 witness: stop_camera has just returned false for a camera that is not
\* registered while another camera's worker is running.
C8_Witness ==
  /\ last_call.op = "stop_camera" /\ ~last_call.ok
  /\ last_call.camera_id \notin DOMAIN processes
  /\ \E d \in DOMAIN processes : IsAlive(processes[d])

\* The steps the loop thread th can take.
LoopStep(th) ==
  \/ LoopWhile(th)
  \/ LoopSession(th)
  \/ \E obs \in LoopObs, q \in BOOLEAN, outs \in LoopOuts : LoopFor(th, obs, q, outs)
  \/ LoopExcept(th)

\* C9: whatever state one camera's worker is in (ended at open, reconnecting,
\* waiting in the backoff), (1) a step of it changes no other camera's worker,
\* queue or stop event, (2) another camera's worker that has a frame to enqueue
\* can enqueue it, and (3) the loop in its for loop can take its next step,
\* every such step handles exactly one listed camera, pulls that camera's
\* oldest frame when it has one, and leaves the loop in the for loop, so that
\* every listed camera is visited in the iteration.
C9_FaultIsolation ==
  /\ [][\A c \in DOMAIN processes :
          (c \in DOMAIN processes' /\ processes'[c] # processes[c])
            => \A d \in DOMAIN processes \ {c} :
                 /\ d \in DOMAIN processes' /\ processes'[d] = processes[d]
                 /\ frame_queues'[d] = frame_queues[d]
                 /\ stop_events'[d] = stop_events[d]]_vars
  /\ [](\A d \in DOMAIN processes :
          processes[d].pc \in {"full", "put"} => ENABLED WorkerShortSource(d))
  /\ [](\A th \in LoopThreads :
          threads[th].pc = "for"
            => /\ ENABLED LoopStep(th)
               /\ threads[th].pending \cup threads[th].visited = DOMAIN processes)
  /\ [][\A th \in LoopThreads :
          (threads[th].pc = "for" /\ threads[th].pending # {}
             /\ threads'[th] # threads[th])
            => /\ threads'[th].pc = "for"
               /\ \E d \in threads[th].pending :
                    /\ threads'[th].pending = threads[th].pending \ {d}
                    /\ threads'[th].visited = threads[th].visited \cup {d}
                    /\ frame_queues[d] # <<>>
                         => /\ frame_queues'[d] = Tail(frame_queues[d])
                            /\ d \in threads'[th].pulled
                            /\ frame_buffers'[d][Len(frame_buffers'[d])]
                                 = Head(frame_queues[d])]_vars

\* C9 witness: in one iteration the loop found nothing for camera 1, whose
\* worker ended when its source did not open, and pulled a frame of camera 2.
C9_Witness ==
  \E th \in LoopThreads :
    /\ ~IsAlive(processes[1]) /\ processes[1].frame_count = 0
    /\ 1 \in threads[th].visited \ threads[th].pulled
    /\ 2 \in threads[th].pulled
    /\ 2 \in DOMAIN frame_buffers

\* C10: a loop thread that has started always has a next step, and it ends
\* only in a step taken while running is false.
C10_LoopEndsOnlyStopped ==
  /\ [](\A th \in LoopThreads :
          threads[th].pc \notin {"none", "exited"} => ENABLED LoopStep(th))
  /\ [][\A th \in LoopThreads :
          (threads[th].pc # "exited" /\ threads'[th].pc = "exited") => ~running]_vars

\* C10 witness: after a fault raised while handling a camera and a fault
\* raised in the body of the while loop in one iteration, the thread is back
\* at the while test with running true.
C10_Witness ==
  \E th \in LoopThreads :
    /\ running /\ threads[th].pc = "while"
    /\ threads[th].fault = {"camera", "loop"}

\* What should_send_alert answered in the latest create_alert call.
GateAccepted(call) ==
  ShouldSendAlert(call.before.last_alerts, <<call.camera_id, call.alert_type>>,
                  call.time).ok

\* The latest create_alert call added one alert to the alerts table.
Persisted(call) ==
  /\ Len(call.after.alerts) = Len(call.before.alerts) + 1
  /\ SubSeq(call.after.alerts, 1, Len(call.before.alerts)) = call.before.alerts

NewAlert(call) == call.after.alerts[Len(call.after.alerts)]

\* C11: a create_alert call whose should_send_alert returns false writes no
\* image and no clip, hands nothing to the store, attempts no email, publishes
\* no event, leaves the cooldown map and the alerts table as they were and
\* returns none.
C11_SuppressedNoOp ==
  (alert_call.op = "create_alert" /\ ~GateAccepted(alert_call))
    => /\ alert_call.effects = Effects(FALSE, <<>>, 0, 0)
       /\ alert_call.after = alert_call.before
       /\ ~alert_call.created /\ ~alert_call.raised

\* C11 witness: a call refused by the gate although the camera has its row and
\* its ring and every collaborator would have worked.
C11_Witness ==
  /\ alert_call.op = "create_alert" /\ ~GateAccepted(alert_call)
  /\ alert_call.row /\ alert_call.ring # <<>>
  /\ alert_call.out = Outcome("ok", TRUE, "sent")

\* C12: a create_alert call hands exactly one alert record to the store when
\* should_send_alert returned true, and none when it returned false.
C12_AcceptedExactlyOne ==
  alert_call.op = "create_alert"
    => alert_call.effects.handed = IF GateAccepted(alert_call) THEN 1 ELSE 0

\* C13: a create_alert call that persists an alert publishes an event of type
\* "alert" through the hub.
C13_PersistedPublished ==
  (alert_call.op = "create_alert" /\ Persisted(alert_call))
    => \E i \in DOMAIN alert_call.effects.events :
         alert_call.effects.events[i].type = "alert"

\* C14: when the commit of the alert raises, create_alert returns none and
\* raises nothing, leaves no alert in the table and attempts no email.
C14_StoreFailureDropped ==
  (alert_call.op = "create_alert" /\ GateAccepted(alert_call) /\ alert_call.row
     /\ alert_call.out.store \in {"fail", "fatal"})
    => /\ ~alert_call.raised /\ ~alert_call.created
       /\ alert_call.after.alerts = alert_call.before.alerts
       /\ alert_call.effects.email = 0

\* C15: an accepted create_alert call whose clip is not generated (the ring of
\* the camera is missing or empty, or the clip writer fails) and whose store
\* works persists the alert with no video path and attempts the email.
C15_ClipFailureProceeds ==
  (alert_call.op = "create_alert" /\ GateAccepted(alert_call) /\ alert_call.row
     /\ alert_call.out.store = "ok"
     /\ (alert_call.ring = <<>> \/ ~alert_call.out.clip))
    => /\ Persisted(alert_call)
       /\ ~NewAlert(alert_call).video
       /\ alert_call.effects.clip = <<>>
       /\ alert_call.effects.email = 1

\* C15 witness: an alert persisted without a video path for a camera that has
\* no ring, its email sent.
C15_Witness ==
  /\ alert_call.op = "create_alert" /\ alert_call.ring = <<>> /\ alert_call.out.clip
  /\ Persisted(alert_call) /\ ~NewAlert(alert_call).video
  /\ NewAlert(alert_call).email_sent

\* C16: whatever the notifier answers, the alerts persisted before and the
\* alert persisted by the call stay in the table; the alert's email_sent is
\* true only if the notifier reported success, and false when it failed.
C16_NotifierNeverReverts ==
  alert_call.op = "create_alert"
    => /\ SubSeq(alert_call.after.alerts, 1, Len(alert_call.before.alerts))
            = alert_call.before.alerts
       /\ alert_call.effects.email = 1 => Persisted(alert_call)
       /\ Persisted(alert_call)
            => /\ NewAlert(alert_call).email_sent => alert_call.out.email = "sent"
               /\ alert_call.out.email = "failed" => ~NewAlert(alert_call).email_sent

\* C16 witness: the notifier failed and the alert is in the table with
\* email_sent false, after an earlier alert whose email was sent.
C16_Witness ==
  /\ alert_call.op = "create_alert" /\ alert_call.out.email = "failed"
  /\ Persisted(alert_call) /\ ~NewAlert(alert_call).email_sent
  /\ alert_call.before.alerts # <<>> /\ alert_call.before.alerts[1].email_sent

\* C17: a broadcast that has ended sent once to every websocket that was
\* registered when it was called and is still registered and connected; every
\* websocket whose send raised has left the registry; and a broadcast called
\* later finds none of them registered.
C17_BroadcastReachesAll ==
  \A b \in DOMAIN broadcasts :
    broadcasts[b].pc = "done"
      => /\ \A s \in broadcasts[b].registered :
              (s \in Range(active_connections) /\ channels[s].state = "open")
                => s \in Range(broadcasts[b].attempted)
         /\ \A i, j \in DOMAIN broadcasts[b].attempted :
              i # j => broadcasts[b].attempted[i] # broadcasts[b].attempted[j]
         /\ \A s \in Range(broadcasts[b].disconnected) :
              s \notin Range(active_connections)
         /\ \A s \in Range(broadcasts[b].attempted) :
              s \notin Range(broadcasts[b].disconnected)
                => b \in Range(delivered[s])

\* C18: every subscriber receives the events in the order in which their
\* broadcasts were called.
C18_DeliveredInCallOrder ==
  \A s \in Subscribers :
    \A i, j \in DOMAIN delivered[s] : i < j => delivered[s][i] < delivered[s][j]

\* The scenario of C17 with no other call in progress: three websockets, the
\* send to the second raises.
C17_Scenario ==
  /\ Len(broadcasts) >= 1 /\ broadcasts[1].pc = "done"
  /\ broadcasts[1].attempted = <<1, 2, 3>>
  /\ broadcasts[1].disconnected = <<2>>
  /\ active_connections = <<1, 3>>
  /\ delivered[1] = <<1>> /\ delivered[2] = <<>> /\ delivered[3] = <<1>>

\* C19: generate_clip on a non-empty ring writes, when its writer works, the
\* last min(ring size, duration x 30) frames of the ring in ring order; on a
\* missing or empty ring it returns false and writes nothing.
C19_ClipIsRecentSuffix ==
  clip_call.op = "generate_clip"
    => LET ring == clip_call.ring
           frames == clip_call.frames
           want == IF Len(ring) < clip_call.duration * CLIP_FPS
                     THEN Len(ring) ELSE clip_call.duration * CLIP_FPS
       IN  /\ ring = <<>> => ~clip_call.ok /\ frames = <<>>
           /\ (ring # <<>> /\ clip_call.writer_ok)
                => /\ clip_call.ok
                   /\ Len(frames) = want
                   /\ \A k \in 1..want : frames[k] = ring[Len(ring) - want + k]

\* C19 witness: a clip of one second cut from a full ring that has already
\* evicted its oldest frames.
C19_Witness ==
  /\ clip_call.op = "generate_clip" /\ clip_call.ok
  /\ Len(clip_call.ring) = max_buffer_size
  /\ clip_call.ring[1].frame_number > 0
  /\ Len(clip_call.frames) = CLIP_FPS
  /\ clip_call.frames[1].frame_number = MaxClipFrames - CLIP_FPS

StrictlyIncreasing(q) ==
  \A i, j \in 1..Len(q) : i < j => q[i].frame_number < q[j].frame_number

\* C20: within one run of a worker the frames in its queue carry strictly
\* increasing frame numbers, the frames the processing loop has pulled (the
\* ring keeps them in the order of the pulls) carry strictly increasing frame
\* numbers, and every frame still queued is newer than every frame pulled.
C20_FramesInOrder ==
  /\ \A c \in DOMAIN frame_queues : StrictlyIncreasing(frame_queues[c])
  /\ \A c \in DOMAIN frame_buffers :
       /\ StrictlyIncreasing(frame_buffers[c])
       /\ c \in DOMAIN frame_queues =>
            \A m \in FrameNumbers(frame_buffers[c]), n \in FrameNumbers(frame_queues[c]) :
              m < n

\* C20 witness: the loop pulled a frame, the worker then evicted a later one
\* from the full queue, and the loop pulled a still later one: a frame was
\* skipped and the order kept.
C20_Witness ==
  /\ 1 \in DOMAIN frame_buffers
  /\ evicted.frame # NoFrame
  /\ \E i \in 1..(Len(frame_buffers[1]) - 1) :
       /\ frame_buffers[1][i].frame_number < evicted.frame.frame_number
       /\ evicted.frame.frame_number < frame_buffers[1][i + 1].frame_number

\* C21: a frame that detect_pushing reports as pushing was compared with a
\* frame of the same camera: the first frame of a camera that the detector
\* evaluates, which has no predecessor of its own, is never reported.
C21_PushingPerSource ==
  (detect_call.op = "process_frame" /\ detect_call.trace.pushing_ran
     /\ detect_call.report.pushing.detected)
    => detect_call.trace.against.camera_id = detect_call.report.camera_id

\* C22: in every process_frame call all four conditions are evaluated, also
\* when the evaluation of one of them raises, and a condition whose evaluation
\* raised is reported not detected with confidence 0.
C22_FailureIsolated ==
  detect_call.op = "process_frame"
    => /\ detect_call.trace.pushing_ran
       /\ detect_call.trace.crowd_raises
            => /\ ~detect_call.report.crowd.detected
               /\ detect_call.report.crowd.confidence = 0
       /\ detect_call.trace.lying_raises
            => /\ ~detect_call.report.lying.detected
               /\ detect_call.report.lying.confidence = 0

\* C25: a process_frame call for one camera leaves the window of every other
\* camera in lying_tracker as it was.
C25_OtherWindowsUntouched ==
  [][\A b \in Cameras :
       (detect_call' # detect_call /\ detect_call'.report.camera_id # b)
         => Window(lying_tracker', b) = Window(lying_tracker, b)]_vars

\* C25 witness: camera 2 has a window that began earlier, and camera 1, which
\* had a window too, has just been evaluated with an observation that does
\* not qualify.
C25_Witness ==
  /\ detect_call.op = "process_frame"
  /\ detect_call.report.camera_id = 1 /\ ~detect_call.report.qualifies
  /\ detect_call.trace.window_before # -1
  /\ Window(lying_tracker, 2) # -1
  /\ Window(lying_tracker, 2) < detect_call.report.time

\* C26: a process_frame call in which the pose model raises inside
\* detect_lying reports lying as not detected and leaves the window of its
\* camera as it found it.
C26_LyingErrorKeepsWindow ==
  (detect_call.op = "process_frame" /\ detect_call.trace.lying_raises)
    => /\ ~detect_call.report.lying.detected
       /\ Window(lying_tracker, detect_call.report.camera_id)
            = detect_call.trace.window_before

\* C24: between the steps of one evaluation no other thread removes or
\* replaces the window of its key: an evaluation that has seen or set the
\* window finds the same window at its next step, and none ends in a KeyError.
C24_LyingStepsExclusive ==
  \A th \in AnalysisThreads :
    /\ ~evaluations[th].raised
    /\ evaluations[th].pc \in {"read", "del"}
         => Window(lying_tracker, AnalysisKey) = evaluations[th].window
    /\ evaluations[th].pc = "set" => AnalysisKey \notin DOMAIN lying_tracker

\* C23: the put_nowait of a frame the worker has read always succeeds, so the
\* frame goes to the tail of the queue; what the worker removes to make room
\* is the head of the queue, never the frame it has just read.
C23_ReadFrameEnqueued ==
  [][\A c \in DOMAIN processes \cap DOMAIN processes' :
       /\ (processes[c].pc = "put" /\ processes'[c].pc = "loop")
            => /\ processes[c].frame # NoFrame
               /\ frame_queues'[c] = Append(frame_queues[c], processes[c].frame)
               /\ processes'[c].frame_count = processes[c].frame_count + 1
       /\ (processes[c].pc = "evict" /\ processes'[c].pc = "put")
            => /\ processes'[c].frame = processes[c].frame
               /\ frame_queues[c] # <<>> => frame_queues'[c] = Tail(frame_queues[c])]_vars

\* C23 witness: the worker has put a frame into a queue that was full, after
\* evicting the oldest one, while the loop had pulled frames before.
C23_Witness ==
  /\ processes[1].pc = "loop"
  /\ evicted.frame # NoFrame
  /\ Len(frame_queues[1]) = QueueMaxSize
  /\ frame_queues[1][QueueMaxSize].frame_number = processes[1].frame_count - 1
  /\ Len(evicted.before) = QueueMaxSize
  /\ evicted.before[QueueMaxSize].frame_number = processes[1].frame_count - 2
  /\ 1 \in DOMAIN frame_buffers

\* C27: a frame the loop pulled goes to process_frame exactly when its
\* frame_number is a multiple of PROCESS_EVERY_N_FRAMES, the row of its camera
\* exists and the camera query did not raise; a frame whose number is not a
\* multiple is never evaluated and no alert is created from it.
C27_SampledAndConfigured ==
  pull_call.op = "process_camera" /\ pull_call.frame # NoFrame =>
    LET multiple == pull_call.frame.frame_number % PROCESS_EVERY_N_FRAMES = 0
    IN  /\ pull_call.outcome = "forwarded"
             <=> (multiple /\ pull_call.row /\ ~pull_call.query_raises)
        /\ pull_call.outcome # "forwarded"
             => ~pull_call.evaluated /\ ~pull_call.alerted
        /\ ~multiple => ~pull_call.evaluated /\ ~pull_call.alerted

\* C27 as first stated: a pulled frame goes to process_frame exactly when its
\* frame_number is a multiple of PROCESS_EVERY_N_FRAMES and the row of its
\* camera exists.
C27_ForwardedIffSampledAndRow ==
  pull_call.op = "process_camera" /\ pull_call.frame # NoFrame =>
    (pull_call.outcome = "forwarded"
       <=> (pull_call.frame.frame_number % PROCESS_EVERY_N_FRAMES = 0 /\ pull_call.row))

\* A multiple of N was forwarded and raised an alert while a frame that is no
\* multiple of N sits in the ring of the same camera.
C27_Witness ==
  /\ pull_call.op = "process_camera"
  /\ pull_call.outcome = "forwarded"
  /\ pull_call.alerted
  /\ pull_call.frame.frame_number > 0
  /\ \E i \in DOMAIN frame_buffers[1] :
       frame_buffers[1][i].frame_number % PROCESS_EVERY_N_FRAMES # 0

\* C28: every frame the loop pulls is the newest frame of the ring of its
\* camera right after the call, sampled or not, row or no row; a call that
\* finds no frame leaves every ring as it was.
C28_PulledFrameInRing ==
  pull_call.op = "process_camera" =>
    IF pull_call.frame = NoFrame
      THEN ~pull_call.appended /\ pull_call.outcome = "no_frame"
      ELSE /\ pull_call.appended
           /\ pull_call.camera_id \in DOMAIN frame_buffers
           /\ LET ring == frame_buffers[pull_call.camera_id]
              IN  Len(ring) > 0 /\ ring[Len(ring)] = pull_call.frame

\* A frame that is no multiple of N was pulled when the row of its camera was
\* gone, and it is in the ring.
C28_Witness ==
  /\ pull_call.op = "process_camera"
  /\ pull_call.frame # NoFrame
  /\ pull_call.frame.frame_number % PROCESS_EVERY_N_FRAMES # 0
  /\ ~pull_call.row
  /\ pull_call.appended

\* C29: every add_frame leaves the ring of its camera with at most
\* max_buffer_size frames, namely the ring before the call with the new frame
\* at the end and, if that made it too long, without its oldest frame, so that
\* the ring is always the latest frames of the camera in the order they were
\* added; the rings of the other cameras stay as they were.
C29_RingKeepsMostRecent ==
  [][frame_buffers' # frame_buffers =>
       \E c \in DOMAIN frame_buffers' :
         LET old == IF c \in DOMAIN frame_buffers THEN frame_buffers[c] ELSE <<>>
             new == frame_buffers'[c]
             all == old \o <<new[Len(new)]>>
         IN  /\ Len(new) > 0
             /\ Len(new) <= max_buffer_size
             /\ Len(new) = IF Len(old) < max_buffer_size THEN Len(old) + 1
                           ELSE max_buffer_size
             /\ new = SubSeq(all, Len(all) - Len(new) + 1, Len(all))
             /\ \A i \in 1..(Len(new) - 1) :
                  new[i + 1].frame_number = new[i].frame_number + 1
             /\ new[Len(new)].frame_number =
                  IF old = <<>> THEN 0 ELSE old[Len(old)].frame_number + 1
             /\ DOMAIN frame_buffers \subseteq DOMAIN frame_buffers'
             /\ \A d \in DOMAIN frame_buffers' \ {c} :
                  d \in DOMAIN frame_buffers /\ frame_buffers'[d] = frame_buffers[d]
  ]_vars

\* The ring of camera 1 is full and has dropped its two oldest frames, and the
\* ring of camera 2 holds frames of its own.
C29_Witness ==
  /\ DOMAIN frame_buffers = {1, 2}
  /\ Len(frame_buffers[1]) = max_buffer_size
  /\ frame_buffers[1][1].frame_number = 2
  /\ Len(frame_buffers[2]) = 2

\* C30: a should_send_alert call for one key leaves the entry of every other
\* key as it was, present or absent, and answers as it would if the map held
\* no other key; so an alert accepted for one condition of a source suppresses
\* neither another condition of that source nor the same condition of another
\* source.
C30_KeysIndependent ==
  \A i \in DOMAIN dedup_log :
    LET e == dedup_log[i]
        own == [k \in DOMAIN e.before \cap {e.key} |-> e.before[k]]
    IN  /\ DOMAIN e.after \ {e.key} = DOMAIN e.before \ {e.key}
        /\ \A k \in DOMAIN e.before \ {e.key} : e.after[k] = e.before[k]
        /\ e.ok = ShouldSendAlert(own, e.key, e.time).ok
        /\ e.key \notin DOMAIN e.before => e.ok

\* Within one cooldown the gate accepted a fall of source 1, then a lying of
\* source 1 and a fall of source 2.
C30_Witness ==
  \E i, j, l \in DOMAIN dedup_log :
    /\ i < j /\ i < l
    /\ dedup_log[i].key = <<1, "fall">> /\ dedup_log[i].ok
    /\ dedup_log[j].key = <<1, "lying">> /\ dedup_log[j].ok
    /\ dedup_log[l].key = <<2, "fall">> /\ dedup_log[l].ok
    /\ dedup_log[j].time - dedup_log[i].time < ALERT_COOLDOWN_SECONDS
    /\ dedup_log[l].time - dedup_log[i].time < ALERT_COOLDOWN_SECONDS

\* C31: stop_camera on a registered source sets the stop event of the worker
\* before it waits, and the event stays set through the wait; a worker leaves
\* the registry only at the end of such a wait, and it is terminated there
\* only if it is still alive; when stop_camera returns true the source is in
\* none of processes, stop_events, frame_queues and camera_info.
C31_SignalWaitTerminate ==
  /\ [](\A c \in Cameras :
          /\ c \in stopping => c \in DOMAIN stop_events /\ stop_events[c]
          /\ last_call.op = "stop_camera" /\ last_call.camera_id = c /\ last_call.ok
               => /\ c \notin DOMAIN processes
                  /\ c \notin DOMAIN stop_events
                  /\ c \notin DOMAIN frame_queues
                  /\ c \notin camera_info)
  /\ [][\A c \in Cameras :
          c \in DOMAIN processes /\ c \notin DOMAIN processes'
            => /\ c \in stopping /\ stop_events[c]
               /\ last_call' = Call("stop_camera", c, TRUE, NoFrame, <<>>)
               /\ live_workers'[c] = IF IsAlive(processes[c])
                                        THEN live_workers[c] - 1
                                        ELSE live_workers[c]]_vars

\* stop_camera has returned true for one source, whose worker is gone, while
\* a stop_camera of the other source is waiting for its worker.
C31_Witness ==
  /\ last_call.op = "stop_camera"
  /\ last_call.ok
  /\ last_call.camera_id \notin DOMAIN processes
  /\ live_workers[last_call.camera_id] = 0
  /\ 3 - last_call.camera_id \in stopping

\* C32: once the stop event of a worker is set, the worker does not start
\* another iteration of its read loop: it finishes the iteration it is in (at
\* most one read, at most one reconnect, at most one more frame enqueued), and
\* at the loop test it leaves the loop with its capture handle released; a
\* worker that keeps running gets there.
C32_StopWithinOneIteration ==
  /\ [](stop_call.op = "stop_camera" /\ stop_call.camera_id \in DOMAIN processes =>
          LET c == stop_call.camera_id
              was == stop_call.worker
              w == processes[c]
              inIteration == {"read", "full", "evict", "put", "reconnect", "backoff"}
          IN  /\ stop_events[c]
              /\ w.frame_count <= was.frame_count + 1
              /\ Len(frame_queues[c]) <= Len(stop_call.queue) + 1
              /\ w.pc \in inIteration => was.pc \in inIteration
              /\ w.pc = "read" => was.pc = "read"
              /\ w.pc \in {"reconnect", "backoff"}
                   => was.pc \in {"read", "reconnect", "backoff"}
              /\ w.pc \in {"full", "evict", "put"}
                   => was.pc \in {"read", "full", "evict", "put"}
              /\ was.pc \in {"open", "loop", "done"} => w.frame_count = was.frame_count
              /\ w.pc = "done" => w.cap = "released")
  /\ [][\A c \in DOMAIN processes :
          stop_events[c] /\ processes[c].pc = "loop"
          /\ c \in DOMAIN processes' /\ processes'[c] # processes[c]
            => processes'[c].pc = "done" /\ processes'[c].cap = "released"]_vars
  /\ \A c \in Cameras :
       (c \in DOMAIN stop_events /\ stop_events[c])
         ~> (c \notin DOMAIN processes
             \/ (processes[c].pc = "done" /\ processes[c].cap = "released"))

\* The stop event was set while the worker was about to enqueue a frame; the
\* worker has enqueued it, has left the loop and has released its handle.
C32_Witness ==
  /\ stop_call.op = "stop_camera"
  /\ stop_call.worker.pc = "put"
  /\ 1 \in DOMAIN processes
  /\ processes[1].pc = "done"
  /\ processes[1].cap = "released"
  /\ processes[1].frame_count = stop_call.worker.frame_count + 1

\* C33: shutting the application down stops the processing loop first, so
\* that once the application has been shut down the loop is no longer told to
\* run and schedules no new detection, whatever happens to the workers after.
C33_LoopStoppedFirst ==
  app_state = "shutdown" => ~running

\* C34: a create_alert call records or refreshes the cooldown entry of its key
\* only if its alert ends up in the alerts table; a call that passed the gate
\* and persisted nothing leaves the cooldown map as it was, so that it cannot
\* suppress a later detection of the same key.
C34_CooldownOnlyIfPersisted ==
  (alert_call.op = "create_alert"
   /\ alert_call.after.last_alerts # alert_call.before.last_alerts)
    => Persisted(alert_call)

\* C35: whatever start() and stop() calls are made, at most one thread is
\* executing _processing_loop at any time.
C35_SingleLoopThread ==
  Cardinality({th \in DOMAIN threads : threads[th].pc \notin {"none", "exited"}}) <= 1

\* C36: every camera id that get_running_cameras returns has a worker that is
\* still alive, that is, is_camera_running is true for it.
C36_ListedAreAlive ==
  \A c \in GetRunningCameras : IsCameraRunning(c)

\* C37: if the worker of a source keeps enqueuing frames and the loop keeps
\* pulling, the loop eventually pulls a frame of that source whose
\* frame_number is a multiple of PROCESS_EVERY_N_FRAMES, the frame on which
\* detection runs, whatever frames the worker evicts.
C37_DetectionEventuallyRuns ==
  []<>(1 \in DOMAIN processes /\ processes[1].pc = "put")
    => <>(/\ last_call.op = "get_frame" /\ last_call.camera_id = 1 /\ last_call.ok
          /\ Sampled(last_call.frame))

\* C38: whatever websockets connect or disconnect while a broadcast is
\* suspended in a send, every websocket that was registered when the broadcast
\* was called and stayed registered until it ended got exactly one send
\* attempt of that broadcast.
C38_OneAttemptEach ==
  \A b \in DOMAIN broadcasts :
    broadcasts[b].pc = "done"
      => \A s \in broadcasts[b].registered :
           (s \in Range(active_connections) /\ channels[s].state = "open")
             => Cardinality({i \in DOMAIN broadcasts[b].attempted :
                               broadcasts[b].attempted[i] = s}) = 1

\* C39: disconnect for a websocket that a broadcast has already pruned ends
\* without an error and leaves the registry as it was.
C39_DisconnectAfterPrune ==
  \A s \in Subscribers : channels[s].state # "raised"

\* C40: a frame the worker evicts leaves a buffer that holds exactly
\* QueueMaxSize frames at that moment: the worker never evicts from a buffer
\* with free space, also when a get_frame call runs between its full() test
\* and its eviction.
C40_EvictsOnlyWhenFull ==
  evicted.frame # NoFrame => Len(evicted.before) = QueueMaxSize

====
